---- MODULE Spec2Model ----
(***************************************************************************)
(* A model of the mini-React runtime of packages/react: the node model and *)
(* the path algorithm (core/elements.ts), the instance tree                *)
(* (core/instance.ts), the surface adapter (core/dom.ts), the reconciler   *)
(* (core/reconciler.ts) and the hook runtime (core/hooks.ts).              *)
(*                                                                         *)
(* The source tree holds several snapshots of instance.ts, dom.ts and      *)
(* elements.ts.  The model follows the snapshots the reconciler is written *)
(* against: the instance.ts that derives child paths with createChildPath  *)
(* and creates TEXT instances (src/unnamed/part_000, lines 26-149), the    *)
(* dom.ts with the diffing updateDomProps (dom.ts, lines 1-204) and the    *)
(* elements.ts that exports createChildPath (src/unnamed/part_001).        *)
(***************************************************************************)
EXTENDS Integers, Sequences, FiniteSets, TLC

VARIABLES
  hooks,       \* context.hooks.state : path -> sequence of hook slots
  cursor,      \* context.hooks.cursor : path -> next slot index
  visited,     \* context.hooks.visited : paths invoked in the current pass
  queue,       \* context.effects.queue : sequence of [path, cursor]
  rootNode,    \* context.root.node
  rootInst,    \* context.root.instance : <<>> (null) or <<instance>>
  dom,         \* the surface: handle -> node record
  nextId,      \* allocator of object identities (handles, instances, objects)
  microtasks,  \* the pending microtasks, in the order they were enqueued
  setters,     \* the setState closures handed out: <<path, cursor>> -> closure
  effCount,    \* path -> number of invocations of the effect callable
  cleanCount,  \* path -> number of invocations of the cleanup callable
  log,         \* the surface operations of the last render pass
  trace,       \* observations of the last steps (what the claims read)
  ncalls,      \* number of setter calls made so far
  pin          \* the input of the specifications of single functions

vars == <<hooks, cursor, visited, queue, rootNode, rootInst, dom, nextId,
          microtasks, setters, effCount, cleanCount, log, trace, ncalls, pin>>

(***************************************************************************)
(* Bounds of the model.                                                    *)
(***************************************************************************)
MaxCalls == 2     \* setter calls of the client in one run
MaxSetups == 1    \* calls of setup after the first one

(***************************************************************************)
(* JavaScript values held in state slots.  NaN and -0 are values of their  *)
(* own, so that Object.is and === can be told apart.                       *)
(***************************************************************************)
JSNum(n) == [t |-> "number", v |-> n]
JSNaN == [t |-> "NaN", v |-> 0]
JSNegZero == [t |-> "-0", v |-> 0]
JSUndefined == [t |-> "undefined", v |-> 0]
JSNull == [t |-> "null", v |-> 0]

\* Arrays and plain objects carry their identity (ref); an array holds a
\* sequence of values (elems), an object a function from its own keys to
\* values (props).
JSArr(r, elems) == [t |-> "object", v |-> 0, ref |-> r, arr |-> TRUE, elems |-> elems]
JSObj(r, props) == [t |-> "object", v |-> 0, ref |-> r, arr |-> FALSE, props |-> props]

\* Object.keys(x): the indices of an array are its keys "0", "1", ...
KeysOf(x) ==
  IF x.arr THEN {ToString(i - 1) : i \in 1..Len(x.elems)} ELSE DOMAIN x.props

\* x[key], undefined when x has no such key
ValueAt(x, key) ==
  IF x.arr
    THEN IF \E i \in 1..Len(x.elems) : ToString(i - 1) = key
           THEN x.elems[CHOOSE i \in 1..Len(x.elems) : ToString(i - 1) = key]
           ELSE JSUndefined
    ELSE IF key \in DOMAIN x.props THEN x.props[key] ELSE JSUndefined

\* Object.is(a, b): NaN is itself, +0 is not -0, an object is itself only.
ObjectIs(a, b) == a = b

\* a === b on primitives: NaN differs from itself, +0 equals -0.
StrictEquals(a, b) ==
  IF a.t = "NaN" \/ b.t = "NaN" THEN FALSE
  ELSE (IF a.t = "-0" THEN JSNum(0) ELSE a) = (IF b.t = "-0" THEN JSNum(0) ELSE b)

\* v + 1 of the updater v => v + 1
PlusOne(a) ==
  IF a.t = "number" THEN JSNum(a.v + 1)
  ELSE IF a.t = "-0" THEN JSNum(1)
  ELSE JSNaN

\* String(v), as a component prints a state value
ToText(a) ==
  IF a.t = "number" THEN ToString(a.v)
  ELSE IF a.t = "-0" THEN "0"
  ELSE a.t

(***************************************************************************)
(* Prop values.  Objects and functions carry their identity (ref): === on  *)
(* them compares identities, not contents.                                 *)
(***************************************************************************)
NoEntries == [k \in {} |-> ""]
PStr(s) == [t |-> "string", s |-> s, ref |-> 0, entries |-> NoEntries]
PTrue == [t |-> "boolean", s |-> "true", ref |-> 0, entries |-> NoEntries]
PFalse == [t |-> "boolean", s |-> "false", ref |-> 0, entries |-> NoEntries]
PUndefined == [t |-> "undefined", s |-> "", ref |-> 0, entries |-> NoEntries]
PFn(r) == [t |-> "function", s |-> "", ref |-> r, entries |-> NoEntries]
PStyle(r, e) == [t |-> "object", s |-> "", ref |-> r, entries |-> e]

\* prevValue === nextValue of updateDomProps
PropIdentical(a, b) ==
  /\ a.t = b.t
  /\ IF a.t \in {"function", "object"} THEN a.ref = b.ref ELSE a.s = b.s

\* props[key], undefined when the key is absent
PropGet(props, key) == IF key \in DOMAIN props THEN props[key] ELSE PUndefined

(***************************************************************************)
(* Virtual nodes (createElement).                                          *)
(***************************************************************************)
TEXT_ELEMENT == "TEXT_ELEMENT"
Fragment == "Fragment"
NoKey == "<null>"
NoProps == [k \in {} |-> PUndefined]

\* One function component per name; FnName is Function.prototype.name.
ComponentTypes ==
  {"App", "Item", "Styled", "Nest", "Pick", "Outer", "Lazy", "Trio", "Shelf", "Give",
   "MemoA", "MemoB", "Anon"}
FnName(type) ==
  IF type \in {"MemoA", "MemoB"} THEN "MemoizedComponent"
  ELSE IF type = "Anon" THEN ""
  ELSE type

VNode(type, key, props, children) ==
  [type |-> type, key |-> key, props |-> props, children |-> children]

createTextElement(s) ==
  VNode(TEXT_ELEMENT, NoKey, [nodeValue |-> PStr(s)], <<>>)

\* siblings that share the type of the sibling at position index, up to it
RECURSIVE CountSameType(_, _, _)
CountSameType(siblings, nodeType, n) ==
  IF n = 0 THEN 0
  ELSE CountSameType(siblings, nodeType, n - 1)
         + (IF siblings[n].type = nodeType THEN 1 ELSE 0)

JoinPath(parentPath, id) ==
  IF parentPath # "" THEN parentPath \o "/" \o id ELSE id

PathPrefix(nodeType) ==
  IF nodeType \in ComponentTypes
    THEN "c:" \o (IF FnName(nodeType) # "" THEN FnName(nodeType) ELSE "anonymous")
  ELSE IF nodeType = Fragment THEN "f"
  ELSE IF nodeType = TEXT_ELEMENT THEN "t"
  ELSE "h"

\* a createChildPath that numbers every child by its position and ignores keys
createChildPathByIndex(parentPath, key, index, nodeType, siblings) ==
  JoinPath(parentPath, PathPrefix(nodeType) \o ":" \o ToString(index))

\* index is 0-based, as in the source; siblings[index] is siblings[index + 1] here.
createChildPath(parentPath, key, index, nodeType, siblings) ==
  IF key # NoKey
    THEN JoinPath(parentPath, PathPrefix(nodeType) \o ":key(" \o key \o ")")
    ELSE LET stableIndex ==
               IF index < Len(siblings)
                 THEN (IF siblings[index + 1].type = nodeType
                         THEN CountSameType(siblings, nodeType, index)
                         ELSE 0 - 1)
                 ELSE index
         IN JoinPath(parentPath, PathPrefix(nodeType) \o ":" \o ToString(stableIndex))

(***************************************************************************)
(* The surface (the DOM).  A world w is the record of everything a render  *)
(* pass reads and writes; the operators below take a world and return the  *)
(* world after the call.  w.err records a DOMException (removeChild or     *)
(* insertBefore given a node that is not a child of the parent).           *)
(***************************************************************************)
NullDom == 0
Container == 1

DomNode(tag, text) ==
  [tag |-> tag, attrs |-> NoEntries, style |-> NoEntries, className |-> "",
   listeners |-> {}, store |-> [e \in {} |-> 0], text |-> text,
   kids |-> <<>>, parent |-> NullDom]

Logged(w, op, h, k) ==
  [w EXCEPT !.log = @ \cup {[op |-> op, h |-> h, k |-> k]}]

SeqWithout(s, x) == SelectSeq(s, LAMBDA y : y # x)

IndexOf(s, x) == CHOOSE i \in 1..Len(s) : s[i] = x

InsertAt(s, i, x) == SubSeq(s, 1, i - 1) \o <<x>> \o SubSeq(s, i, Len(s))

\* the surface with node taken out of its parent, if it has one
Detached(d, node) ==
  IF d[node].parent = NullDom THEN d
  ELSE [d EXCEPT ![d[node].parent].kids = SeqWithout(@, node),
                 ![node].parent = NullDom]

\* document.createElement(tag) / document.createTextNode(text)
createDomNode(w, tag, text) ==
  Logged([w EXCEPT !.dom = @ @@ (w.nextId :> DomNode(tag, text)),
                   !.nextId = @ + 1],
         "create", w.nextId, tag)

\* parentDom.insertBefore(node, anchor)
insertBefore(w, parentDom, node, anchor) ==
  IF anchor # NullDom /\ w.dom[anchor].parent # parentDom
    THEN [w EXCEPT !.err = TRUE]
    ELSE IF anchor = node THEN Logged(w, "insertBefore", node, "")
    ELSE LET d == Detached(w.dom, node)
             kids == d[parentDom].kids
             at == IF anchor = NullDom THEN Len(kids) + 1 ELSE IndexOf(kids, anchor)
         IN Logged([w EXCEPT !.dom = [d EXCEPT ![parentDom].kids = InsertAt(kids, at, node),
                                               ![node].parent = parentDom]],
                   "insertBefore", node, "")

\* parentDom.removeChild(node)
removeChild(w, parentDom, node) ==
  IF w.dom[node].parent # parentDom
    THEN [w EXCEPT !.err = TRUE]
    ELSE Logged([w EXCEPT !.dom = Detached(w.dom, node)], "removeChild", node, "")

\* /^on[A-Z]/.test(key), over the prop names the model uses
isEventProp(key) == key \in {"onClick", "onInput"}

\* key.slice(2).toLowerCase()
toEventName(key) == IF key = "onClick" THEN "click" ELSE "input"

\* String(value) of an attribute value
AttrString(v) == IF v.t = "object" THEN "[object Object]" ELSE v.s

\* f with f[k] = v, the key added when absent
Put(f, k, v) == [x \in DOMAIN f \cup {k} |-> IF x = k THEN v ELSE f[x]]

\* f without the key k
Del(f, k) == [x \in DOMAIN f \ {k} |-> f[x]]

\* f overwritten by g (Object.assign)
Assign(f, g) == [x \in DOMAIN f \cup DOMAIN g |-> IF x \in DOMAIN g THEN g[x] ELSE f[x]]

setAttribute(w, h, key, value) ==
  Logged([w EXCEPT !.dom[h].attrs = Put(@, key, value)], "setAttribute", h, key)

removeAttribute(w, h, key) ==
  Logged([w EXCEPT !.dom[h].attrs = Del(@, key)], "removeAttribute", h, key)

addEventListener(w, h, eventName, value) ==
  Logged([w EXCEPT !.dom[h].listeners = @ \cup {<<eventName, value.ref>>}],
         "addEventListener", h, eventName)

removeEventListener(w, h, eventName, ref) ==
  Logged([w EXCEPT !.dom[h].listeners = @ \ {<<eventName, ref>>}],
         "removeEventListener", h, eventName)

\* the general attribute branch shared by setDomProps and updateDomProps
setPlainAttribute(w, h, key, value) ==
  IF value = PTrue THEN setAttribute(w, h, key, "")
  ELSE IF value = PFalse \/ value.t = "undefined" THEN removeAttribute(w, h, key)
  ELSE setAttribute(w, h, key, AttrString(value))

\* one iteration of the loop of setDomProps
setDomProp(w, h, key, value) ==
  IF key \in {"children", "nodeValue"} THEN w
  ELSE IF isEventProp(key)
    THEN [addEventListener(w, h, toEventName(key), value)
            EXCEPT !.dom[h].store = Put(@, toEventName(key), value.ref)]
  ELSE IF key = "style" /\ value.t = "object"
    THEN Logged([w EXCEPT !.dom[h].style = Assign(@, value.entries)], "style", h, "")
  ELSE IF key = "className"
    THEN Logged([w EXCEPT !.dom[h].className = value.s], "className", h, "")
  ELSE setPlainAttribute(w, h, key, value)

RECURSIVE setDomPropsOver(_, _, _, _)
setDomPropsOver(w, h, props, keys) ==
  IF keys = {} THEN w
  ELSE LET key == CHOOSE k \in keys : TRUE
       IN CHOOSE r \in {setDomPropsOver(w1, h, props, keys \ {key}) :
                         w1 \in {setDomProp(w, h, key, props[key])}} : TRUE

setDomProps(w, h, props) == setDomPropsOver(w, h, props, DOMAIN props)

\* the stub that ignores prevProps and sets every next prop again
updateDomPropStub(w, h, key, prevProps, nextProps) ==
  IF key \in DOMAIN nextProps THEN setDomProp(w, h, key, nextProps[key]) ELSE w

\* one iteration of keys.forEach of updateDomProps
updateDomProp(w, h, key, prevProps, nextProps) ==
  LET prevValue == PropGet(prevProps, key)
      nextValue == PropGet(nextProps, key)
  IN IF key \in {"children", "nodeValue"} THEN w
     ELSE IF PropIdentical(prevValue, nextValue) THEN w
     ELSE IF isEventProp(key)
       THEN LET eventName == toEventName(key)
                hasPrev == eventName \in DOMAIN w.dom[h].store
                w1 == IF hasPrev
                        THEN [removeEventListener(w, h, eventName, w.dom[h].store[eventName])
                                EXCEPT !.dom[h].store = Del(@, eventName)]
                        ELSE w
            IN IF nextValue.t = "function"
                 THEN [addEventListener(w1, h, eventName, nextValue)
                         EXCEPT !.dom[h].store = Put(@, eventName, nextValue.ref)]
                 ELSE w1
     ELSE IF key = "style"
       THEN LET prevStyle == prevValue.entries
                nextStyle == nextValue.entries
                cleared == [k \in DOMAIN w.dom[h].style |->
                              IF k \in DOMAIN prevStyle /\ k \notin DOMAIN nextStyle
                                THEN "" ELSE w.dom[h].style[k]]
            IN Logged([w EXCEPT !.dom[h].style = Assign(cleared, nextStyle)], "style", h, "")
     ELSE IF key = "className"
       THEN Logged([w EXCEPT !.dom[h].className = nextValue.s], "className", h, "")
     ELSE setPlainAttribute(w, h, key, nextValue)

RECURSIVE updateDomPropsOver(_, _, _, _, _)
updateDomPropsOver(w, h, prevProps, nextProps, keys) ==
  IF keys = {} THEN w
  ELSE LET key == CHOOSE k \in keys : TRUE
       IN CHOOSE r \in {updateDomPropsOver(w1, h, prevProps, nextProps, keys \ {key}) :
                         w1 \in {updateDomProp(w, h, key, prevProps, nextProps)}} : TRUE

updateDomProps(w, h, prevProps, nextProps) ==
  updateDomPropsOver(w, h, prevProps, nextProps, DOMAIN prevProps \cup DOMAIN nextProps)

(***************************************************************************)
(* The hook runtime: useState and useEffect (core/hooks.ts).               *)
(***************************************************************************)
NoFn == ""
NoDeps == [has |-> FALSE, list |-> <<>>]
Deps(list) == [has |-> TRUE, list |-> list]

\* a state slot holds the bare value; an effect slot holds an EffectHook
StateSlot(v) ==
  [kind |-> "state", value |-> v, deps |-> NoDeps, cleanup |-> NoFn, effect |-> NoFn]
EffectSlot(deps, cleanup, effect) ==
  [kind |-> "effect", value |-> JSUndefined, deps |-> deps, cleanup |-> cleanup,
   effect |-> effect]

isEffectHook(hook) == hook.kind = "effect"

\* hooks[cursor] === undefined
SlotUndefined(hs, cur) ==
  \/ cur + 1 > Len(hs)
  \/ hs[cur + 1].kind = "state" /\ hs[cur + 1].value = JSUndefined

\* hooks[cursor] = slot
SlotPut(hs, cur, slot) ==
  IF cur + 1 <= Len(hs) THEN [hs EXCEPT ![cur + 1] = slot] ELSE Append(hs, slot)

\* a shallowEquals that compares the elements with === in place of Object.is
shallowEqualsStrict(a, b) ==
  IF ObjectIs(a, b) THEN TRUE
  ELSE IF a.t # "object" \/ b.t # "object" THEN FALSE
  ELSE IF a.arr /\ b.arr
    THEN /\ Len(a.elems) = Len(b.elems)
         /\ \A i \in 1..Len(a.elems) :
              IF a.elems[i].t = "object" \/ b.elems[i].t = "object"
                THEN a.elems[i] = b.elems[i]
                ELSE StrictEquals(a.elems[i], b.elems[i])
  ELSE IF a.arr # b.arr THEN FALSE
  ELSE /\ Cardinality(KeysOf(a)) = Cardinality(KeysOf(b))
       /\ \A key \in KeysOf(a) :
            IF ValueAt(a, key).t = "object" \/ ValueAt(b, key).t = "object"
              THEN ValueAt(a, key) = ValueAt(b, key)
              ELSE StrictEquals(ValueAt(a, key), ValueAt(b, key))

\* shallowEquals(a, b); typeof x !== "object" || x === null is x.t # "object"
shallowEquals(a, b) ==
  IF ObjectIs(a, b) THEN TRUE
  ELSE IF a.t # "object" \/ b.t # "object" THEN FALSE
  ELSE IF a.arr /\ b.arr
    THEN /\ Len(a.elems) = Len(b.elems)
         /\ \A i \in 1..Len(a.elems) : ObjectIs(a.elems[i], b.elems[i])
  ELSE IF a.arr # b.arr THEN FALSE
  ELSE /\ Cardinality(KeysOf(a)) = Cardinality(KeysOf(b))
       /\ \A key \in KeysOf(a) : ObjectIs(ValueAt(a, key), ValueAt(b, key))

\* deepEquals(a, b)
RECURSIVE deepEquals(_, _)
deepEquals(a, b) ==
  IF ObjectIs(a, b) THEN TRUE
  ELSE IF a.t # "object" \/ b.t # "object" THEN FALSE
  ELSE IF a.arr /\ b.arr
    THEN /\ Len(a.elems) = Len(b.elems)
         /\ \A i \in 1..Len(a.elems) : deepEquals(a.elems[i], b.elems[i])
  ELSE /\ Cardinality(KeysOf(a)) = Cardinality(KeysOf(b))
       /\ \A key \in KeysOf(a) : deepEquals(ValueAt(a, key), ValueAt(b, key))

\* context.hooks.currentPath, currentCursor, currentHooks
currentPath(w) == w.stack[Len(w.stack)]
currentCursor(w) ==
  IF currentPath(w) \in DOMAIN w.cursor THEN w.cursor[currentPath(w)] ELSE 0
currentHooks(w) ==
  IF currentPath(w) \in DOMAIN w.hooks THEN w.hooks[currentPath(w)] ELSE <<>>

\* withEnqueue(fn): one pending microtask per wrapped function
enqueue(tasks, name) ==
  IF \E i \in 1..Len(tasks) : tasks[i] = name THEN tasks ELSE Append(tasks, name)

\* a lazy initializer () => n
JSInit(n) == [t |-> "function", v |-> n]

\* typeof initialValue === "function" ? initialValue() : initialValue
initialOf(initialValue) ==
  IF initialValue.t = "function" THEN JSNum(initialValue.v) ELSE initialValue

\* useState(initialValue): the world after the call, and the value returned;
\* an invocation of the initializer is written to the call log
useState(w, initialValue) ==
  LET path == currentPath(w)
      cur == currentCursor(w)
      hs == currentHooks(w)
      hs1 == IF SlotUndefined(hs, cur)
               THEN SlotPut(hs, cur, StateSlot(initialOf(initialValue))) ELSE hs
      currentValue == hs1[cur + 1].value
  IN [w |-> [w EXCEPT !.hooks = Put(@, path, hs1),
                      !.callLog = IF SlotUndefined(hs, cur) /\ initialValue.t = "function"
                                    THEN Append(@, <<"init", path>>) ELSE @,
                      !.setters = Put(@, <<path, cur>>, [captured |-> currentValue]),
                      !.cursor = Put(@, path, cur + 1)],
      r |-> currentValue]

\* useRef(initialValue): the object { current } that the slot at the cursor
\* holds from the first invocation on; no setter leaves the hook
useRef(w, initialValue) ==
  LET path == currentPath(w)
      cur == currentCursor(w)
      hs == currentHooks(w)
      hs1 == IF SlotUndefined(hs, cur)
               THEN SlotPut(hs, cur, StateSlot([t |-> "ref", v |-> 0, current |-> initialValue]))
               ELSE hs
  IN [w |-> [w EXCEPT !.hooks = Put(@, path, hs1), !.cursor = Put(@, path, cur + 1)],
      r |-> hs1[cur + 1].value]

\* a useEffect whose new record starts with no cleanup
useEffectNoCleanup(w, effect, deps) ==
  LET path == currentPath(w)
      cur == currentCursor(w)
      hs == currentHooks(w)
      hasPrev == cur + 1 <= Len(hs)
      prevHook == hs[cur + 1]
      shouldRun ==
        \/ ~deps.has
        \/ ~hasPrev
        \/ ~isEffectHook(prevHook)
        \/ ~prevHook.deps.has
        \/ ~shallowEquals(JSArr(1, prevHook.deps.list), JSArr(2, deps.list))
      w1 == [w EXCEPT !.hooks = Put(@, path, SlotPut(hs, cur, EffectSlot(deps, NoFn, effect)))]
      w2 == IF shouldRun
              THEN [w1 EXCEPT !.queue = Append(@, [path |-> path, cursor |-> cur]),
                              !.microtasks = enqueue(@, "effects")]
              ELSE w1
  IN [w2 EXCEPT !.cursor = Put(@, path, cur + 1)]

\* useEffect(effect, deps)
useEffect(w, effect, deps) ==
  LET path == currentPath(w)
      cur == currentCursor(w)
      hs == currentHooks(w)
      hasPrev == cur + 1 <= Len(hs)
      prevHook == hs[cur + 1]
      shouldRun ==
        \/ ~deps.has
        \/ ~hasPrev
        \/ ~isEffectHook(prevHook)
        \/ ~prevHook.deps.has
        \/ ~shallowEquals(JSArr(1, prevHook.deps.list), JSArr(2, deps.list))
      hook == EffectSlot(deps,
                         IF hasPrev /\ isEffectHook(prevHook) THEN prevHook.cleanup ELSE NoFn,
                         effect)
      w1 == [w EXCEPT !.hooks = Put(@, path, SlotPut(hs, cur, hook))]
      w2 == IF shouldRun
              THEN [w1 EXCEPT !.queue = Append(@, [path |-> path, cursor |-> cur]),
                              !.microtasks = enqueue(@, "effects")]
              ELSE w1
  IN [w2 EXCEPT !.cursor = Put(@, path, cur + 1)]

\* a setState whose updater reads the value captured at render time
setStateCaptured(w, path, cur, next) ==
  IF path \notin DOMAIN w.hooks THEN w
  ELSE LET stateArray == w.hooks[path]
           prevValue == IF cur + 1 <= Len(stateArray) THEN stateArray[cur + 1].value
                        ELSE JSUndefined
           newValue == IF next.fn THEN PlusOne(w.setters[<<path, cur>>].captured)
                       ELSE next.v
       IN IF ~ObjectIs(newValue, prevValue)
            THEN [w EXCEPT !.hooks[path] = SlotPut(stateArray, cur, StateSlot(newValue)),
                           !.requests = @ + 1,
                           !.microtasks = enqueue(@, "render")]
            ELSE w

\* a setState that compares with === instead of Object.is
setStateStrict(w, path, cur, next) ==
  IF path \notin DOMAIN w.hooks THEN w
  ELSE LET stateArray == w.hooks[path]
           prevValue == IF cur + 1 <= Len(stateArray) THEN stateArray[cur + 1].value
                        ELSE JSUndefined
           newValue == IF next.fn THEN PlusOne(prevValue) ELSE next.v
       IN IF ~StrictEquals(newValue, prevValue)
            THEN [w EXCEPT !.hooks[path] = SlotPut(stateArray, cur, StateSlot(newValue)),
                           !.requests = @ + 1,
                           !.microtasks = enqueue(@, "render")]
            ELSE w

\* a setState without the guard on the slot array: reading stateArray[cursor]
\* of a swept path raises a TypeError
setStateUnguarded(w, path, cur, next) ==
  IF path \notin DOMAIN w.hooks THEN [w EXCEPT !.err = TRUE]
  ELSE LET stateArray == w.hooks[path]
           prevValue == IF cur + 1 <= Len(stateArray) THEN stateArray[cur + 1].value
                        ELSE JSUndefined
           newValue == IF next.fn THEN PlusOne(prevValue) ELSE next.v
       IN IF ~ObjectIs(newValue, prevValue)
            THEN [w EXCEPT !.hooks[path] = SlotPut(stateArray, cur, StateSlot(newValue)),
                           !.requests = @ + 1,
                           !.microtasks = enqueue(@, "render")]
            ELSE w

\* a setState that queues a microtask of render itself at every write, in place
\* of the call of enqueueRender
setStateSchedules(w, path, cur, next) ==
  IF path \notin DOMAIN w.hooks THEN w
  ELSE LET stateArray == w.hooks[path]
           prevValue == IF cur + 1 <= Len(stateArray) THEN stateArray[cur + 1].value
                        ELSE JSUndefined
           newValue == IF next.fn THEN PlusOne(prevValue) ELSE next.v
       IN IF ~ObjectIs(newValue, prevValue)
            THEN [w EXCEPT !.hooks[path] = SlotPut(stateArray, cur, StateSlot(newValue)),
                           !.requests = @ + 1,
                           !.microtasks = Append(@, "render")]
            ELSE w

\* setState(nextValue) of the closure created by useState at (path, cursor);
\* next.fn tells the updater v => v + 1 from the plain value next.v
setState(w, path, cur, next) ==
  IF path \notin DOMAIN w.hooks THEN w
  ELSE LET stateArray == w.hooks[path]
           prevValue == IF cur + 1 <= Len(stateArray) THEN stateArray[cur + 1].value
                        ELSE JSUndefined
           newValue == IF next.fn THEN PlusOne(prevValue) ELSE next.v
       IN IF ~ObjectIs(newValue, prevValue)
            THEN [w EXCEPT !.hooks[path] = SlotPut(stateArray, cur, StateSlot(newValue)),
                           !.requests = @ + 1,
                           !.microtasks = enqueue(@, "render")]
            ELSE w

(***************************************************************************)
(* The client program: the function components the runtime renders.        *)
(*   App    : const [layout] = useState(0); returns <div> with the         *)
(*            children of that layout.                                    *)
(*   Item   : const [n, setN] = useState(0);                               *)
(*            useEffect(() => { ...; return cleanup }, []);                *)
(*            returns <li>{n}</li>.  props.id names the effect callable    *)
(*            and the cleanup callable it returns.                         *)
(*   Styled : returns <div style={{color: "red"}} title="t"/>, the style   *)
(*            object being a new one in every invocation.                  *)
(*   Nest   : const [n, setN] = useState(0);                               *)
(*            useEffect(() => { setN(v => v + 1) }, []);                   *)
(*            if (n === 1) setN(2);                                        *)
(*            returns <p>{n}</p>.  Its effect callable is named N.         *)
(***************************************************************************)
Host(tag, key, props, children) == VNode(tag, key, props, children)
ItemNode(key, id) == VNode("Item", key, [id |-> PStr(id)], <<>>)

Layouts == 0..5

LayoutChildren(l) ==
  CASE l = 0 -> <<ItemNode("A", "A"), ItemNode("B", "B"), ItemNode("C", "C")>>
    [] l = 1 -> <<ItemNode("C", "C"), ItemNode("A", "A"), ItemNode("B", "B")>>
    [] l = 2 -> <<ItemNode("A", "A")>>
    [] l = 3 -> <<Host("span", NoKey, NoProps, <<>>), ItemNode(NoKey, "X")>>
    [] l = 4 -> <<ItemNode(NoKey, "Y"), ItemNode(NoKey, "X")>>
    [] OTHER -> <<Host("div", NoKey, NoProps, <<ItemNode(NoKey, "X")>>),
                  Host("span", NoKey, NoProps, <<ItemNode(NoKey, "Y")>>)>>

ItemNames == {"A", "B", "C", "X", "Y"}

\* App after const [layout] = useState(0), s being what useState returned
AppReturn(s) ==
  [w |-> s.w, r |-> <<Host("div", NoKey, NoProps, LayoutChildren(s.r.v))>>]

\* Item after const [n, setN] = useState(0); w.shown keeps, per props.id, the
\* path the Item ran at and the value useState returned to it in this pass
ItemReturn(s, props) ==
  [w |-> useEffect([s.w EXCEPT !.shown = Put(@, props.id.s,
                                             [path |-> currentPath(s.w), value |-> s.r])],
                   props.id.s, Deps(<<>>)),
   r |-> <<Host("li", NoKey, NoProps, <<createTextElement(ToText(s.r))>>)>>]

\* if (n === 1) setN(2), in the body of Nest
NestCalls(w, n) ==
  IF n = JSNum(1)
    THEN setState(w, currentPath(w), 0, [fn |-> FALSE, v |-> JSNum(2)])
    ELSE w

\* Nest after const [n, setN] = useState(0)
NestReturn(s) ==
  [w |-> NestCalls(useEffect([s.w EXCEPT !.shown = Put(@, "N",
                                               [path |-> currentPath(s.w), value |-> s.r])],
                             "N", Deps(<<>>)),
                   s.r),
   r |-> <<Host("p", NoKey, NoProps, <<createTextElement(ToText(s.r))>>)>>]

\* Pick returns what props.as names: a p, a span, a fragment of one or of two
\* children, or null
PickNode(as) == VNode("Pick", NoKey, [as |-> PStr(as)], <<>>)
PickReturn(props) ==
  CASE props.as.s = "p" -> <<Host("p", NoKey, NoProps, <<>>)>>
    [] props.as.s = "span" -> <<Host("span", NoKey, NoProps, <<>>)>>
    [] props.as.s = "one" -> <<VNode(Fragment, NoKey, NoProps, <<createTextElement("x")>>)>>
    [] props.as.s = "two" ->
         <<VNode(Fragment, NoKey, NoProps,
                 <<createTextElement("x"), Host("b", NoKey, NoProps, <<>>)>>)>>
    [] OTHER -> <<>>

\* Outer returns <Pick {...props} />
OuterNode(as) == VNode("Outer", NoKey, [as |-> PStr(as)], <<>>)
OuterReturn(props) == <<VNode("Pick", NoKey, props, <<>>)>>

\* Lazy after const [n, setN] = useState(() => 7)
LazyReturn(s) ==
  [w |-> [s.w EXCEPT !.shown = Put(@, "L", [path |-> currentPath(s.w), value |-> s.r])],
   r |-> <<Host("p", NoKey, NoProps, <<createTextElement(ToText(s.r))>>)>>]

\* Trio: const [a] = useState(0); useEffect(e); const [b] = useState(1);
\* w.shown keeps a as T1 and b as T3
TrioReturn(s) ==
  [w |-> [s.w EXCEPT !.shown = Put(@, "T3", [path |-> currentPath(s.w), value |-> s.r])],
   r |-> <<Host("p", NoKey, NoProps, <<>>)>>]
TrioEffect(s) ==
  TrioReturn(useState(useEffect([s.w EXCEPT !.shown = Put(@, "T1",
                                                 [path |-> currentPath(s.w), value |-> s.r])],
                                "e", NoDeps),
                      JSNum(1)))

\* Shelf after const [page, setPage] = useState(0): a div of props.old while
\* page is 0, of props.new otherwise
ShelfNode(old, new) == VNode("Shelf", NoKey, [old |-> old, new |-> new], <<>>)
ShelfReturn(s, props) ==
  [w |-> s.w,
   r |-> <<Host("div", NoKey, NoProps, IF s.r = JSNum(0) THEN props.old ELSE props.new)>>]

\* Give returns props.gives, a value of any kind.  What a body returns is
\* written <<>> when the value is falsy (null, undefined, false, "", 0, NaN:
\* the test !raw), <<node>> when it is a node, and otherwise <<NotANode(raw)>>:
\* a string, a number, true or an array, whose type, key and props are
\* undefined.
Falsy(raw) ==
  \/ raw.kind \in {"null", "undefined"}
  \/ raw.kind = "boolean" /\ raw.s = "false"
  \/ raw.kind = "string" /\ raw.s = ""
  \/ raw.kind = "number" /\ raw.js \in {JSNum(0), JSNegZero, JSNaN}
NotANode(raw) ==
  [type |-> "undefined", key |-> NoKey, props |-> NoProps, children |-> <<>>, raw |-> raw]
GiveNode(raw) == VNode("Give", NoKey, [gives |-> raw], <<>>)
GiveReturn(props) ==
  IF Falsy(props.gives) THEN <<>>
  ELSE IF props.gives.kind = "vnode" THEN <<props.gives.node[1]>>
  ELSE <<NotANode(props.gives)>>

\* Count after const [n, setN] = useState(0): returns <p>{n}</p>; w.shown
\* keeps under M the path it ran at and the value useState returned
CountReturn(s) ==
  [w |-> [s.w EXCEPT !.shown = Put(@, "M", [path |-> currentPath(s.w), value |-> s.r])],
   r |-> <<Host("p", NoKey, NoProps, <<createTextElement(ToText(s.r))>>)>>]

\* ref.current.prevProps = props; ref.current.prevVNode = vNode; return vNode,
\* b being what Component(props) left and returned; the ref is slot 0
Remembered(b, props) ==
  [w |-> [b.w EXCEPT !.hooks[currentPath(b.w)][1].value.current =
                        [prevProps |-> <<props>>, prevVNode |-> b.r]],
   r |-> b.r]

\* MemoizedComponent(props) of memo(Count), s being what useRef returned; the
\* props of an invocation are an object of their own
MemoNode(label) == VNode("MemoA", NoKey, [label |-> PStr(label)], <<>>)
MemoizedComponent(s, props) ==
  IF s.r.current.prevProps = <<>>
    THEN Remembered(CountReturn(useState(s.w, JSNum(0))), props)
  ELSE IF shallowEquals(JSObj(1, s.r.current.prevProps[1]), JSObj(2, props))
    THEN [w |-> s.w, r |-> s.r.current.prevVNode]
  ELSE Remembered(CountReturn(useState(s.w, JSNum(0))), props)

\* Component(props): the world after the body ran, and what it returned
\* (App, Item and Nest begin with const [n, setN] = useState(0))
Body(w, type, props) ==
  CASE type = "App" -> CHOOSE r \in {AppReturn(s) : s \in {useState(w, JSNum(0))}} : TRUE
    [] type = "Item" -> CHOOSE r \in {ItemReturn(s, props) : s \in {useState(w, JSNum(0))}} : TRUE
    [] type = "Nest" -> CHOOSE r \in {NestReturn(s) : s \in {useState(w, JSNum(0))}} : TRUE
    [] type = "Pick" -> [w |-> w, r |-> PickReturn(props)]
    [] type = "Lazy" -> LazyReturn(useState(w, JSInit(7)))
    [] type = "Trio" -> TrioEffect(useState(w, JSNum(0)))
    [] type = "Outer" -> [w |-> w, r |-> OuterReturn(props)]
    [] type = "Give" -> [w |-> w, r |-> GiveReturn(props)]
    [] type = "MemoA" ->
         MemoizedComponent(useRef(w, [prevProps |-> <<>>, prevVNode |-> <<>>]), props)
    [] type = "Shelf" -> ShelfReturn(useState(w, JSNum(0)), props)
    [] type = "Styled" ->
         [w |-> [w EXCEPT !.nextId = @ + 1],
          r |-> <<Host("div", NoKey,
                       [style |-> PStyle(w.nextId, [color |-> "red"]),
                        title |-> PStr("t")],
                       <<>>)>>]
    [] OTHER -> [w |-> w, r |-> <<>>]

(***************************************************************************)
(* Instances (core/instance.ts) and their surface nodes (core/dom.ts).     *)
(***************************************************************************)
Instance(kind, d, node, children, path, id) ==
  [kind |-> kind, dom |-> d, node |-> node, children |-> children,
   key |-> node.key, path |-> path, id |-> id]

RECURSIVE getDomNodes(_)
RECURSIVE DomNodesOf(_, _)
DomNodesOf(children, i) ==
  IF i > Len(children) THEN <<>>
  ELSE getDomNodes(children[i]) \o DomNodesOf(children, i + 1)

getDomNodes(instance) ==
  IF instance.dom # NullDom THEN <<instance.dom>>
  ELSE DomNodesOf(instance.children, 1)

RECURSIVE getFirstDom(_)
RECURSIVE FirstDomOf(_, _)
FirstDomOf(children, i) ==
  IF i > Len(children) THEN NullDom
  ELSE IF getFirstDom(children[i]) # NullDom THEN getFirstDom(children[i])
  ELSE FirstDomOf(children, i + 1)

getFirstDom(instance) ==
  IF instance.dom # NullDom THEN instance.dom
  ELSE FirstDomOf(instance.children, 1)

getFirstDomFromChildren(children) == FirstDomOf(children, 1)

RECURSIVE insertNodes(_, _, _, _, _)
insertNodes(w, parentDom, nodes, i, anchor) ==
  IF i > Len(nodes) THEN w
  ELSE insertNodes(insertBefore(w, parentDom, nodes[i], anchor), parentDom, nodes, i + 1, anchor)

insertInstance(w, parentDom, instance, anchor) ==
  insertNodes(w, parentDom, getDomNodes(instance), 1, anchor)

RECURSIVE removeNodes(_, _, _, _)
removeNodes(w, parentDom, nodes, i) ==
  IF i > Len(nodes) THEN w
  ELSE removeNodes(removeChild(w, parentDom, nodes[i]), parentDom, nodes, i + 1)

\* a removeInstance that takes out the first surface node of the instance only
removeFirstDom(w, parentDom, instance) ==
  IF getFirstDom(instance) = NullDom THEN w
  ELSE removeChild(w, parentDom, getFirstDom(instance))

removeInstance(w, parentDom, instance) ==
  removeNodes(w, parentDom, getDomNodes(instance), 1)

\* an invocation that leaves the cursor of the path where it is
enterComponentKeepCursor(w, path) ==
  [w EXCEPT !.stack = Append(@, path),
            !.visited = @ \cup {path},
            !.cursor = IF path \in DOMAIN @ THEN @ ELSE Put(@, path, 0),
            !.hooks = IF path \in DOMAIN @ THEN @ ELSE Put(@, path, <<>>),
            !.invoked = Append(@, path)]

\* the first lines of a component invocation, shared by mount and update
enterComponent(w, path) ==
  [w EXCEPT !.stack = Append(@, path),
            !.visited = @ \cup {path},
            !.cursor = Put(@, path, 0),
            !.hooks = IF path \in DOMAIN @ THEN @ ELSE Put(@, path, <<>>),
            !.invoked = Append(@, path)]

leaveComponent(w) == [w EXCEPT !.stack = SubSeq(@, 1, Len(@) - 1)]

\* the instance object of a node, with a new identity
NewInstance(w, kind, d, node, children, path) ==
  [w |-> [w EXCEPT !.nextId = @ + 1],
   r |-> Instance(kind, d, node, children, path, w.nextId)]

\* the host or fragment instance around its child instances cs
ParentInstance(cs, kind, d, node, path) ==
  NewInstance(cs.w, kind, d, node, cs.r, path)

\* the component instance around the instance c of what the component returned
ComponentInstance(c, node, path) ==
  NewInstance(c.w, "component", c.r.dom, node, <<c.r>>, path)

RECURSIVE createInstance(_, _, _)
RECURSIVE createChildInstances(_, _, _, _, _, _)
RECURSIVE appendChildInstance(_, _, _, _, _, _)
RECURSIVE createFunctionalInstance(_, _, _)

\* the body of the forEach, c being the child instance just created
appendChildInstance(c, path, childVNodes, i, parentDom, acc) ==
  createChildInstances(IF parentDom # NullDom
                         THEN insertInstance(c.w, parentDom, c.r, NullDom)
                         ELSE c.w,
                       path, childVNodes, i + 1, parentDom, Append(acc, c.r))

\* the forEach over the child nodes of a host (parentDom # NullDom) or fragment
createChildInstances(w, path, childVNodes, i, parentDom, acc) ==
  IF i > Len(childVNodes) THEN [w |-> w, r |-> acc]
  ELSE LET childVNode == childVNodes[i]
           childPath == createChildPath(path, childVNode.key, i - 1, childVNode.type, childVNodes)
       \* const childInstance = createInstance(childVNode, childPath)
       IN CHOOSE r \in {appendChildInstance(c, path, childVNodes, i, parentDom, acc) :
                         c \in {createInstance(w, childVNode, childPath)}} : TRUE

\* createFunctionalInstance after the component ran, b being what Body returned
createFunctionalInstance(b, vNode, path) ==
  IF b.r = <<>>
    THEN NewInstance(leaveComponent(b.w), "component", NullDom, vNode, <<>>, path)
    ELSE LET raw == b.r[1]
             childPath == createChildPath(path, raw.key, 0, raw.type, <<raw>>)
         \* const childInstance = createInstance(childVNode, childPath)
         IN CHOOSE r \in {ComponentInstance(c, vNode, path) :
                           c \in {createInstance(leaveComponent(b.w), raw, childPath)}} : TRUE

\* A value that is not a node reaches createHostInstance: its type is neither
\* TEXT_ELEMENT nor Fragment, document.createElement(undefined) makes an
\* element named "undefined", setDomProps iterates over nothing, and
\* vNode.props.children throws a TypeError (w.err).
createInstance(w, vNode, path) ==
  CASE vNode.type \in ComponentTypes ->
         \* const childVNode = component(props)
         CHOOSE r \in {createFunctionalInstance(b, vNode, path) :
                       b \in {Body(enterComponent(w, path), vNode.type, vNode.props)}} : TRUE
    [] vNode.type = TEXT_ELEMENT ->
         NewInstance(createDomNode(w, "#text", PropGet(vNode.props, "nodeValue").s),
                     "text", w.nextId, vNode, <<>>, path)
    [] vNode.type = Fragment ->
         CHOOSE r \in {ParentInstance(cs, "fragment", NullDom, vNode, path) :
                       cs \in {createChildInstances(w, path, vNode.children, 1, NullDom,
                                                    <<>>)}} : TRUE
    [] "raw" \in DOMAIN vNode ->
         NewInstance([createDomNode(w, "undefined", "") EXCEPT !.err = TRUE],
                     "host", w.nextId, vNode, <<>>, path)
    [] OTHER ->
         CHOOSE r \in {ParentInstance(cs, "host", w.nextId, vNode, path) :
                       cs \in {createChildInstances(
                                 setDomProps(createDomNode(w, vNode.type, ""), w.nextId,
                                             vNode.props),
                                 path, vNode.children, 1, w.nextId, <<>>)}} : TRUE

(***************************************************************************)
(* The reconciler (core/reconciler.ts).  An absent instance or node (null) *)
(* is the empty sequence, a present one a sequence of one element.         *)
(* w.decisions records, for every position that held an old instance and   *)
(* holds a new node, the old path, the new path and whether the instance   *)
(* object was kept.                                                        *)
(***************************************************************************)
Max(a, b) == IF a >= b THEN a ELSE b

RECURSIVE reconcile(_, _, _, _, _)
RECURSIVE reconcileChildrenFrom(_, _, _, _, _, _)
RECURSIVE placeChild(_, _, _, _, _, _, _, _, _, _)
RECURSIVE updateComponent(_, _, _, _)

Decided(w, oldChild, newChild, childPath, updatedChild) ==
  IF oldChild # <<>> /\ newChild # <<>>
    THEN [w EXCEPT !.decisions = @ \cup
            {[old |-> oldChild[1].path, new |-> childPath,
              same |-> updatedChild # <<>> /\ updatedChild[1].id = oldChild[1].id]}]
    ELSE w

\* the rest of one iteration of reconcileChildren, u being what reconcile returned
placeChild(u, parentDom, parentInstance, newChildren, i, updatedChildren, oldChild, newChild, childPath, anchor) ==
  LET isNew == u.r # <<>> /\ (oldChild = <<>> \/ u.r[1].id # oldChild[1].id)
      w1 == IF isNew /\ anchor # NullDom
              THEN insertInstance(removeInstance(u.w, parentDom, u.r[1]),
                                  parentDom, u.r[1], anchor)
              ELSE u.w
  IN reconcileChildrenFrom(Decided(w1, oldChild, newChild, childPath, u.r),
                           parentDom, parentInstance, newChildren, i + 1,
                           updatedChildren \o u.r)

\* the loop of reconcileChildren from position i (0-based) on
reconcileChildrenFrom(w, parentDom, parentInstance, newChildren, i, updatedChildren) ==
  LET oldChildren == parentInstance.children
      maxLength == Max(Len(oldChildren), Len(newChildren))
  IN IF i >= maxLength THEN [w |-> w, r |-> updatedChildren]
     ELSE LET oldChild == IF i < Len(oldChildren) THEN <<oldChildren[i + 1]>> ELSE <<>>
              newChild == IF i < Len(newChildren) THEN <<newChildren[i + 1]>> ELSE <<>>
              childPath ==
                createChildPath(parentInstance.path,
                                IF newChild # <<>> THEN newChild[1].key ELSE NoKey,
                                i,
                                IF newChild # <<>> THEN newChild[1].type ELSE "undefined",
                                newChildren)
              anchor == getFirstDomFromChildren(SubSeq(oldChildren, i + 2, Len(oldChildren)))
          \* const updatedChild = reconcile(parentDom, oldChild, newChild, childPath)
          IN CHOOSE r \in {placeChild(u, parentDom, parentInstance, newChildren, i,
                                       updatedChildren, oldChild, newChild, childPath,
                                       anchor) :
                            u \in {reconcile(w, parentDom, oldChild, newChild, childPath)}} : TRUE

reconcileChildren(w, parentDom, parentInstance, newChildren) ==
  reconcileChildrenFrom(w, parentDom, parentInstance, newChildren, 0, <<>>)

\* instance.dom.nodeValue = newText
setNodeValue(w, h, newText) ==
  Logged([w EXCEPT !.dom[h].text = newText], "nodeValue", h, "")

\* createInstance followed by insertInstance(parentDom, newInstance, null)
mountInstance(c, parentDom) ==
  [w |-> insertInstance(c.w, parentDom, c.r, NullDom), r |-> <<c.r>>]

\* instance.children = reconcileChildren(...); return instance
withChildren(rc, inst) ==
  [w |-> rc.w, r |-> <<[inst EXCEPT !.children = rc.r]>>]

\* instance.children = [childInstance]; instance.dom = childInstance.dom
withChild(n, inst, oldChild, newChild, childPath) ==
  [w |-> Decided(n.w, oldChild, newChild, childPath, n.r),
   r |-> <<[inst EXCEPT !.children = n.r,
                        !.dom = IF n.r # <<>> THEN n.r[1].dom ELSE NullDom]>>]

\* the component branch of reconcile after the component ran
updateComponent(b, parentDom, inst, path) ==
  LET oldChild == IF Len(inst.children) > 0 THEN <<inst.children[1]>> ELSE <<>>
  IN IF b.r # <<>>
       THEN LET childVNode == b.r[1]
                childPath == createChildPath(path, childVNode.key, 0,
                                             childVNode.type, <<childVNode>>)
            \* const childInstance = reconcile(parentDom, oldChild, childVNode, childPath)
            IN CHOOSE r \in {withChild(n, inst, oldChild, b.r, childPath) :
                              n \in {reconcile(leaveComponent(b.w), parentDom, oldChild,
                                               b.r, childPath)}} : TRUE
       ELSE [w |-> IF oldChild # <<>>
                     THEN removeInstance(leaveComponent(b.w), parentDom, oldChild[1])
                     ELSE leaveComponent(b.w),
             r |-> <<[inst EXCEPT !.children = <<>>, !.dom = NullDom]>>]

\* reconcile(parentDom, instance, node, path) once instance and node match
updateInstance(w, parentDom, old, node, path, inst) ==
  CASE inst.kind = "host" ->
         CHOOSE r \in {withChildren(rc, inst) :
                       rc \in {reconcileChildren(
                                 updateDomProps(w, inst.dom, old.node.props, node.props),
                                 inst.dom, inst, node.children)}} : TRUE
    [] inst.kind = "text" ->
         [w |-> IF w.dom[inst.dom].text # PropGet(node.props, "nodeValue").s
                  THEN setNodeValue(w, inst.dom, PropGet(node.props, "nodeValue").s)
                  ELSE w,
          r |-> <<inst>>]
    [] inst.kind = "component" ->
         \* const childVNode = component(props)
         CHOOSE r \in {updateComponent(b, parentDom, inst, path) :
                       b \in {Body(enterComponent(w, path), node.type, node.props)}} : TRUE
    [] OTHER ->
         CHOOSE r \in {withChildren(rc, inst) :
                       rc \in {reconcileChildren(w, parentDom, inst, node.children)}} : TRUE

\* a reconcile that replaces on a change of type only and overlooks the key
reconcileByType(w, parentDom, instance, node, path) ==
  CASE node = <<>> ->
         [w |-> IF instance # <<>> THEN removeInstance(w, parentDom, instance[1]) ELSE w,
          r |-> <<>>]
    [] node # <<>> /\ instance = <<>> ->
         CHOOSE r \in {mountInstance(c, parentDom) :
                       c \in {createInstance(w, node[1], path)}} : TRUE
    [] node # <<>> /\ instance # <<>> /\ instance[1].node.type # node[1].type ->
         CHOOSE r \in {mountInstance(c, parentDom) :
                       c \in {createInstance(removeInstance(w, parentDom, instance[1]),
                                             node[1], path)}} : TRUE
    [] OTHER ->
         updateInstance(w, parentDom, instance[1], node[1], path,
                        [instance[1] EXCEPT !.node = node[1]])

reconcile(w, parentDom, instance, node, path) ==
  CASE node = <<>> ->
         [w |-> IF instance # <<>> THEN removeInstance(w, parentDom, instance[1]) ELSE w,
          r |-> <<>>]
    [] node # <<>> /\ instance = <<>> ->
         CHOOSE r \in {mountInstance(c, parentDom) :
                       c \in {createInstance(w, node[1], path)}} : TRUE
    [] node # <<>> /\ instance # <<>>
         /\ (instance[1].node.type # node[1].type \/ instance[1].key # node[1].key) ->
         CHOOSE r \in {mountInstance(c, parentDom) :
                       c \in {createInstance(removeInstance(w, parentDom, instance[1]),
                                             node[1], path)}} : TRUE
    [] OTHER ->
         updateInstance(w, parentDom, instance[1], node[1], path,
                        [instance[1] EXCEPT !.node = node[1]])

(***************************************************************************)
(* Effect flush and sweep (core/hooks.ts).  Invoking the effect callable   *)
(* named e counts in effCount[e] and returns a cleanup callable, also      *)
(* named e; invoking that cleanup counts in cleanCount[e].                 *)
(***************************************************************************)
Bump(f, k) == Put(f, k, (IF k \in DOMAIN f THEN f[k] ELSE 0) + 1)

\* hook.effect(): the callable N of Nest calls setN(v => v + 1), the setter of
\* slot 0 of its path; the callables of the Items change nothing of the context
invokeEffect(w, path, effect) ==
  IF effect = "N"
    THEN setState(w, path, 0, [fn |-> TRUE, v |-> JSUndefined])
    ELSE w

\* what hook.effect() returns: the callable "plain" returns undefined, every
\* other effect callable returns a cleanup callable of its own name
effectReturn(effect) == IF effect = "plain" THEN NoFn ELSE effect

\* a flush that invokes the effect without invoking the stored cleanup first
flushEffectNoCleanup(w, entry) ==
  IF entry.path \notin DOMAIN w.hooks THEN w
  ELSE LET hs == w.hooks[entry.path]
       IN IF entry.cursor + 1 > Len(hs) THEN w
          ELSE LET hook == hs[entry.cursor + 1]
               IN IF ~isEffectHook(hook) THEN w
                  ELSE [invokeEffect(w, entry.path, hook.effect)
                          EXCEPT !.effCount = Bump(@, hook.effect),
                                 !.callLog = Append(@, <<"effect", hook.effect>>),
                                 !.hooks[entry.path][entry.cursor + 1].cleanup =
                                   effectReturn(hook.effect)]

\* the body of queue.forEach of flushEffects, for one queue entry
flushEffect(w, entry) ==
  IF entry.path \notin DOMAIN w.hooks THEN w
  ELSE LET hs == w.hooks[entry.path]
       IN IF entry.cursor + 1 > Len(hs) THEN w
          ELSE LET hook == hs[entry.cursor + 1]
               IN IF ~isEffectHook(hook) THEN w
                  ELSE LET w1 == IF hook.cleanup # NoFn
                                   THEN [w EXCEPT !.cleanCount = Bump(@, hook.cleanup),
                                                  !.callLog = Append(@, <<"cleanup", hook.cleanup>>)]
                                   ELSE w
                       IN [invokeEffect(w1, entry.path, hook.effect)
                             EXCEPT !.effCount = Bump(@, hook.effect),
                                    !.callLog = Append(@, <<"effect", hook.effect>>),
                                    !.hooks[entry.path][entry.cursor + 1].cleanup =
                                      effectReturn(hook.effect)]

\* a flush that takes the queue entries from the last one to the first
RECURSIVE flushQueueLifo(_, _, _)
flushQueueLifo(w, q, i) ==
  IF i > Len(q) THEN w ELSE flushEffect(flushQueueLifo(w, q, i + 1), q[i])

RECURSIVE flushQueue(_, _, _)
flushQueue(w, q, i) ==
  IF i > Len(q) THEN w ELSE flushQueue(flushEffect(w, q[i]), q, i + 1)

flushEffects(w) == flushQueue([w EXCEPT !.queue = <<>>], w.queue, 1)

\* hooks.forEach of cleanupUnusedHooks: run and clear the cleanups of one path
RECURSIVE cleanupSlots(_, _, _)
cleanupSlots(w, path, i) ==
  IF i > Len(w.hooks[path]) THEN w
  ELSE LET hook == w.hooks[path][i]
       IN IF isEffectHook(hook) /\ hook.cleanup # NoFn
            THEN cleanupSlots([w EXCEPT !.cleanCount = Bump(@, hook.cleanup),
                                        !.callLog = Append(@, <<"cleanup", hook.cleanup>>),
                                        !.hooks[path][i].cleanup = NoFn],
                              path, i + 1)
            ELSE cleanupSlots(w, path, i + 1)

RECURSIVE cleanupPaths(_, _)
cleanupPaths(w, paths) ==
  IF paths = {} THEN w
  ELSE LET path == CHOOSE p \in paths : TRUE
           w1 == cleanupSlots(w, path, 1)
       IN cleanupPaths([w1 EXCEPT !.hooks = Del(@, path), !.cursor = Del(@, path)],
                       paths \ {path})

\* a sweep that forgets context.hooks.cursor.delete(path)
cleanupKeepCursor(w) ==
  LET removedPaths == DOMAIN w.hooks \ w.visited
  IN IF removedPaths # {}
       THEN [cleanupPaths(w, removedPaths)
               EXCEPT !.cursor = w.cursor,
                      !.queue = SelectSeq(@, LAMBDA e : e.path \notin removedPaths)]
       ELSE w

cleanupUnusedHooks(w) ==
  LET removedPaths == DOMAIN w.hooks \ w.visited
  IN IF removedPaths # {}
       THEN [cleanupPaths(w, removedPaths)
               EXCEPT !.queue = SelectSeq(@, LAMBDA e : e.path \notin removedPaths)]
       ELSE w

\* render(): one pass from the root, then the sweep
rootReconciled(r) == [r.w EXCEPT !.rootInst = r.r]

reconcileRoot(w) ==
  rootReconciled(reconcile([w EXCEPT !.visited = {}], Container, w.rootInst,
                           <<w.rootNode>>, "root"))

render(w) == CHOOSE r \in {cleanupUnusedHooks(p) : p \in {reconcileRoot(w)}} : TRUE

(***************************************************************************)
(* The state machine.  A step is one synchronous call of the client (a     *)
(* setter) or one microtask (the render pass, the effect flush).           *)
(***************************************************************************)
NoHooks == [p \in {} |-> <<>>]
NoCount == [p \in {} |-> 0]
NoShown == [p \in {} |-> [path |-> "", value |-> JSUndefined]]

\* the context and the surface as one record, at the start of a step
World ==
  [hooks |-> hooks, cursor |-> cursor, visited |-> visited, queue |-> queue,
   rootNode |-> rootNode, rootInst |-> rootInst, dom |-> dom, nextId |-> nextId,
   microtasks |-> microtasks, setters |-> setters, effCount |-> effCount,
   cleanCount |-> cleanCount, log |-> {}, stack |-> <<>>, err |-> FALSE,
   decisions |-> {}, invoked |-> <<>>, requests |-> 0, callLog |-> <<>>,
   shown |-> NoShown]

\* the context of a page that has rendered nothing yet
Blank ==
  [hooks |-> NoHooks, cursor |-> NoCount, visited |-> {}, queue |-> <<>>,
   rootNode |-> createTextElement(""), rootInst |-> <<>>,
   dom |-> (Container :> DomNode("container", "")), nextId |-> Container + 1,
   microtasks |-> <<>>, setters |-> [k \in {} |-> [captured |-> JSUndefined]],
   effCount |-> NoCount, cleanCount |-> NoCount, log |-> {}, stack |-> <<>>,
   err |-> FALSE, decisions |-> {}, invoked |-> <<>>, requests |-> 0,
   callLog |-> <<>>, shown |-> NoShown]

RECURSIVE removeKids(_, _)
removeKids(w, parentDom) ==
  IF w.dom[parentDom].kids = <<>> THEN w
  ELSE removeKids([w EXCEPT !.dom = Detached(@, w.dom[parentDom].kids[1])], parentDom)

\* step 2 of setup: removeInstance(context.root.container, context.root.instance)
\* and container.innerHTML = ""
emptyContainer(w) ==
  removeKids(IF w.rootInst # <<>>
               THEN removeInstance(w, Container, w.rootInst[1]) ELSE w,
             Container)

\* a setup that leaves out context.hooks.state.clear()
resetRootKeepState(w, node) ==
  [emptyContainer(w)
     EXCEPT !.rootNode = node, !.rootInst = <<>>,
            !.cursor = NoCount, !.visited = {}, !.stack = <<>>]

\* steps 2 and 3 of setup(rootNode, container), both arguments present
resetRoot(w, node) ==
  [emptyContainer(w)
     EXCEPT !.rootNode = node, !.rootInst = <<>>, !.hooks = NoHooks,
            !.cursor = NoCount, !.visited = {}, !.stack = <<>>]

\* setup(rootNode, container), both arguments present
setup(w, node) == render(resetRoot(w, node))

\* setup(rootNode, container) with either argument possibly missing: rootNode
\* is <<>> (null) or <<node>>, container is NullDom (null) or a handle; w.err
\* tells that the call threw
setupCall(w, node, container) ==
  IF container = NullDom THEN [w EXCEPT !.err = TRUE]
  ELSE IF node = <<>> THEN [emptyContainer(w) EXCEPT !.err = TRUE]
  ELSE setup(w, node[1])

Commit(w) ==
  /\ hooks' = w.hooks
  /\ cursor' = w.cursor
  /\ visited' = w.visited
  /\ queue' = w.queue
  /\ rootNode' = w.rootNode
  /\ rootInst' = w.rootInst
  /\ dom' = w.dom
  /\ nextId' = w.nextId
  /\ microtasks' = w.microtasks
  /\ setters' = w.setters
  /\ effCount' = w.effCount
  /\ cleanCount' = w.cleanCount

InitWith(w) ==
  /\ hooks = w.hooks
  /\ cursor = w.cursor
  /\ visited = w.visited
  /\ queue = w.queue
  /\ rootNode = w.rootNode
  /\ rootInst = w.rootInst
  /\ dom = w.dom
  /\ nextId = w.nextId
  /\ microtasks = w.microtasks
  /\ setters = w.setters
  /\ effCount = w.effCount
  /\ cleanCount = w.cleanCount

NoCall ==
  [path |-> "", cursor |-> 0, next |-> [fn |-> FALSE, v |-> JSUndefined],
   live |-> FALSE, prev |-> JSUndefined, captured |-> JSUndefined, requests |-> 0,
   raised |-> FALSE, hooksBefore |-> NoHooks, tasksBefore |-> <<>>]

\* the layout App rendered in the pass that left the world w
LayoutOf(w) == w.hooks["root"][1].value.v

\* what a render pass did: w is the world after the sweep, pre the world before
\* it, batch the client calls since the pass before, before the slot arrays and
\* shownBefore the values shown when the pass started, from the layout that the
\* pass before rendered
PassOf(w, pre, batch, before, shownBefore, from) ==
  [batch |-> batch, from |-> from, to |-> LayoutOf(w),
   decisions |-> w.decisions, invoked |-> w.invoked, err |-> w.err,
   requests |-> w.requests,
   pre |-> [hooks |-> pre.hooks, cursor |-> pre.cursor, queue |-> pre.queue,
            visited |-> pre.visited, cleanCount |-> pre.cleanCount],
   hooksBefore |-> before, shown |-> w.shown, shownBefore |-> shownBefore]

SetupMark ==
  [op |-> "setup", path |-> "", cursor |-> 0, fn |-> FALSE, live |-> FALSE,
   prev |-> JSUndefined, captured |-> JSUndefined]

AppNode == VNode("App", NoKey, NoProps, <<>>)

\* the page after setup(node, container), pre being the world before the sweep
MountedAs(w, pre) ==
  /\ InitWith(w)
  /\ log = w.log
  /\ trace = [op |-> "setup", call |-> NoCall,
              pass |-> PassOf(w, pre, <<>>, NoHooks, NoShown, 0),
              callLog |-> w.callLog, batch |-> <<>>, passes |-> 1,
              layouts |-> <<0>>, setups |-> 0,
              flush |-> [queue |-> <<>>, hooks |-> NoHooks, requests |-> 0,
                         surface |-> {}],
              failed |-> [count |-> 0, raised |-> FALSE, node |-> <<>>,
                          container |-> NullDom, before |-> Blank]]
  /\ ncalls = 0
  /\ pin = 0

Mounted(pre) == \E p \in {pre} : MountedAs(cleanupUnusedHooks(p), p)

Init == Mounted(reconcileRoot(resetRoot(Blank, AppNode)))

\* the state after a setter call that left the world w
SetterCalled(w, path, cur, next) ==
  /\ Commit(w)
  /\ trace' = [trace EXCEPT
       !.op = "setState",
       !.call = [path |-> path, cursor |-> cur, next |-> next,
                 live |-> path \in DOMAIN hooks,
                 prev |-> IF path \in DOMAIN hooks /\ cur + 1 <= Len(hooks[path])
                            THEN hooks[path][cur + 1].value ELSE JSUndefined,
                 captured |-> setters[<<path, cur>>].captured,
                 requests |-> w.requests, raised |-> w.err,
                 hooksBefore |-> hooks, tasksBefore |-> microtasks],
       !.batch = Append(@, [op |-> "setState", path |-> path, cursor |-> cur,
                            fn |-> next.fn, live |-> path \in DOMAIN hooks,
                            prev |-> IF path \in DOMAIN hooks /\ cur + 1 <= Len(hooks[path])
                                       THEN hooks[path][cur + 1].value ELSE JSUndefined,
                            captured |-> setters[<<path, cur>>].captured])]

\* a call setState(next) of the closure that useState created at (path, cur)
CallSetter(path, cur, next) ==
  /\ ncalls < MaxCalls
  /\ <<path, cur>> \in DOMAIN setters
  /\ SetterCalled(setState(World, path, cur, next), path, cur, next)
  /\ ncalls' = ncalls + 1
  /\ UNCHANGED <<log, pin>>

\* the client sets the layout of App
SetLayout ==
  \E l \in Layouts : CallSetter("root", 0, [fn |-> FALSE, v |-> JSNum(l)])

\* the client calls setN(v => v + 1) of an Item, mounted or not any more
Increment ==
  \E k \in DOMAIN setters :
    /\ k[1] # "root"
    /\ CallSetter(k[1], k[2], [fn |-> TRUE, v |-> JSUndefined])

\* the state after a render pass: pre is the world before the sweep, w after it
Rendered(w, pre) ==
  /\ Commit(w)
  /\ log' = w.log
  /\ trace' = [trace EXCEPT
       !.op = "render",
       !.pass = PassOf(w, pre, trace.batch, hooks, trace.pass.shown, trace.pass.to),
       !.callLog = w.callLog,
       !.batch = <<>>,
       !.passes = @ + 1,
       !.layouts = IF rootNode = AppNode /\ @[Len(@)] # LayoutOf(w)
                     THEN Append(@, LayoutOf(w)) ELSE @]

Swept(pre) == \E p \in {pre} : Rendered(cleanupUnusedHooks(p), p)

\* the microtask of enqueueRender
RunRender ==
  /\ microtasks # <<>>
  /\ Head(microtasks) = "render"
  /\ Swept(reconcileRoot([World EXCEPT !.microtasks = Tail(@)]))
  /\ UNCHANGED <<ncalls, pin>>

\* the state after an effect flush: trace.flush keeps the queue and the slot
\* arrays the flush started with, the render requests and the surface calls
\* made during it
Flushed(w) ==
  /\ Commit(w)
  /\ trace' = [trace EXCEPT
       !.op = "flush",
       !.callLog = w.callLog,
       !.flush = [queue |-> queue, hooks |-> hooks, requests |-> w.requests,
                  surface |-> w.log]]

\* the microtask of enqueueEffects
RunFlush ==
  /\ microtasks # <<>>
  /\ Head(microtasks) = "effects"
  /\ Flushed(flushEffects([World EXCEPT !.microtasks = Tail(@)]))
  /\ UNCHANGED <<log, ncalls, pin>>

\* the state after the client called setup again
RemountedAs(w, pre) ==
  /\ Commit(w)
  /\ log' = w.log
  /\ trace' = [trace EXCEPT
       !.op = "setup",
       !.pass = PassOf(w, pre, trace.batch, hooks, trace.pass.shown, trace.pass.to),
       !.callLog = w.callLog,
       !.batch = Append(@, SetupMark),
       !.passes = @ + 1,
       !.layouts = <<0>>,
       !.setups = @ + 1]

Remounted(pre) == \E p \in {pre} : RemountedAs(cleanupUnusedHooks(p), p)

\* the client calls setup(<App />, container) on the page already mounted, in
\* the synchronous turn of a setter call
Remount ==
  /\ trace.setups < MaxSetups
  /\ trace.op = "setState"
  /\ Remounted(reconcileRoot(resetRoot(World, AppNode)))
  /\ UNCHANGED <<ncalls, pin>>

Next == SetLayout \/ Increment \/ RunRender \/ RunFlush \/ Remount

Spec == Init /\ [][Next]_vars

\* no surface call of a render pass raised a DOMException
NoSurfaceError == ~trace.pass.err

(***************************************************************************)
(* Properties of the page.                                                 *)
(***************************************************************************)
Count(f, k) == IF k \in DOMAIN f THEN f[k] ELSE 0

\* the number of pending microtasks of enqueueRender
RenderTasks == Cardinality({i \in 1..Len(microtasks) : microtasks[i] = "render"})

\* the calls of one synchronous turn are two calls set(v => v + 1) of the setter
\* of one mounted component whose state was 0
TwoUpdaterCalls(batch) ==
  /\ Len(batch) = 2
  /\ \A i \in 1..2 : /\ batch[i].op = "setState"
                     /\ batch[i].fn
                     /\ batch[i].live
                     /\ batch[i].path = batch[1].path
                     /\ batch[i].cursor = 0
  /\ batch[1].prev = JSNum(0)

\* the Items that ran at the path in the last pass
ShownAt(path) == {id \in DOMAIN trace.pass.shown : trace.pass.shown[id].path = path}

\* C1: after two synchronous calls set(v => v + 1) on a mounted component whose
\* state was 0, one render pass is pending; after that pass no further pass is
\* pending and the component's useState returned 2 in it.
C1_BatchedUpdaters ==
  /\ (trace.op = "setState" /\ TwoUpdaterCalls(trace.batch)) => RenderTasks = 1
  /\ (trace.op = "render" /\ TwoUpdaterCalls(trace.pass.batch)) =>
       /\ RenderTasks = 0
       /\ ShownAt(trace.pass.batch[1].path) # {}
       /\ \A id \in ShownAt(trace.pass.batch[1].path) :
            trace.pass.shown[id].value = JSNum(2)

C1_Witness ==
  /\ trace.op = "render"
  /\ TwoUpdaterCalls(trace.pass.batch)
  /\ \E id \in DOMAIN trace.pass.shown : trace.pass.shown[id].value = JSNum(2)

\* C3: a setter called after its path was swept raises nothing, leaves every
\* slot array as it was and requests no render pass.
C3_StaleSetter ==
  (trace.op = "setState" /\ ~trace.call.live) =>
    /\ ~trace.call.raised
    /\ hooks = trace.call.hooksBefore
    /\ trace.call.requests = 0
    /\ microtasks = trace.call.tasksBefore

C3_Witness ==
  /\ trace.op = "setState"
  /\ ~trace.call.live
  /\ trace.call.next.fn
  /\ trace.call.path \notin DOMAIN hooks

\* the ids of the Items in a list of nodes
RECURSIVE ItemIds(_, _)
ItemIds(nodes, i) ==
  IF i > Len(nodes) THEN {}
  ELSE (IF nodes[i].type = "Item" THEN {nodes[i].props.id.s} ELSE {})
         \cup ItemIds(nodes[i].children, 1) \cup ItemIds(nodes, i + 1)

ItemsOf(l) == ItemIds(LayoutChildren(l), 1)

\* C4: with every microtask done and at most one change of layout since the
\* page was mounted, the effect of every mounted Item was invoked once and its
\* cleanup never; the effect and the cleanup of every Item that the change
\* unmounted were invoked once each.
C4_EffectOnce ==
  (microtasks = <<>> /\ trace.setups = 0 /\ Len(trace.layouts) <= 2) =>
    \A id \in ItemNames :
      /\ id \in ItemsOf(trace.layouts[Len(trace.layouts)]) =>
           Count(effCount, id) = 1 /\ Count(cleanCount, id) = 0
      /\ id \in ItemsOf(0) \ ItemsOf(trace.layouts[Len(trace.layouts)]) =>
           Count(effCount, id) = 1 /\ Count(cleanCount, id) = 1

\* the pass re-rendered the keyed list [A, B, C] as [C, A, B]
Reordered ==
  /\ trace.op = "render"
  /\ trace.pass.from = 0
  /\ trace.pass.to = 1
  /\ \A e \in 1..Len(trace.pass.batch) : trace.pass.batch[e].op = "setState"

\* the value the Item id held when the pass started
HeldBefore(id) == trace.pass.hooksBefore[trace.pass.shownBefore[id].path][1].value

\* C5: when [A, B, C] is re-rendered as [C, A, B], every Item gets from useState
\* the value it held under its key when the pass started, and holds it after
\* the sweep.
C5_StateFollowsKey ==
  Reordered =>
    \A id \in {"A", "B", "C"} :
      /\ trace.pass.shown[id].value = HeldBefore(id)
      /\ trace.pass.shown[id].path \in DOMAIN hooks
      /\ hooks[trace.pass.shown[id].path][1].value = HeldBefore(id)

C5_Witness ==
  /\ Reordered
  /\ trace.pass.shown["A"].value = JSNum(1)
  /\ trace.pass.shown["B"].value = JSNum(0)
  /\ trace.pass.shown["C"].value = JSNum(0)

\* C9: in every pass, at every child position that held an instance and holds
\* a node, the path of the new node is the path of the old instance exactly
\* when the old instance is updated in place.
C9_PathIffSameInstance ==
  trace.op = "render" =>
    \A d \in trace.pass.decisions : (d.old = d.new) <=> d.same

\* the paths the sweep of the last pass removed
Removed == DOMAIN trace.pass.pre.hooks \ trace.pass.pre.visited

\* the effect slots with a callable cleanup named id at the removed paths
RemovedCleanups(id) ==
  {<<p, i>> \in Removed \X (1..2) :
     /\ i <= Len(trace.pass.pre.hooks[p])
     /\ isEffectHook(trace.pass.pre.hooks[p][i])
     /\ trace.pass.pre.hooks[p][i].cleanup = id}

\* C10: the sweep of a pass invokes once every callable cleanup of the paths
\* that are in the slot-array map and not visited, and no other; it deletes
\* these paths from the slot-array map and the cursor map and drops their
\* entries of the effect queue; it leaves the slot array and the cursor of
\* every visited path, and every other queue entry, as they were.
C10_Sweep ==
  trace.op \in {"render", "setup"} =>
    /\ \A p \in Removed : p \notin DOMAIN hooks /\ p \notin DOMAIN cursor
    /\ \A id \in ItemNames :
         Count(cleanCount, id) =
           Count(trace.pass.pre.cleanCount, id) + Cardinality(RemovedCleanups(id))
    /\ \A p \in DOMAIN trace.pass.pre.hooks \ Removed :
         /\ p \in DOMAIN hooks /\ hooks[p] = trace.pass.pre.hooks[p]
         /\ p \in DOMAIN cursor /\ cursor[p] = trace.pass.pre.cursor[p]
    /\ queue = SelectSeq(trace.pass.pre.queue, LAMBDA e : e.path \notin Removed)

C10_Witness ==
  /\ trace.op = "render"
  /\ \E id \in ItemNames : RemovedCleanups(id) # {}
  /\ \E p \in Removed : p \notin trace.pass.pre.visited /\ p \in DOMAIN trace.pass.pre.cursor

\* a sweep that drops queue entries of a removed path is reachable
SweepPurges ==
  /\ trace.op = "render"
  /\ \E i \in 1..Len(trace.pass.pre.queue) : trace.pass.pre.queue[i].path \in Removed

\* the effect callables the last step invoked, in the order of the calls
EffectsRun == SelectSeq(trace.callLog, LAMBDA c : c[1] = "effect")

\* the entries of the queue the last flush started with that named an effect
\* slot, in queue order
EffectsDue ==
  SelectSeq(trace.flush.queue,
            LAMBDA e : /\ e.path \in DOMAIN trace.flush.hooks
                       /\ e.cursor + 1 <= Len(trace.flush.hooks[e.path])
                       /\ isEffectHook(trace.flush.hooks[e.path][e.cursor + 1]))

\* C11: a render pass (the first one of setup included) invokes no effect
\* callable, and a flush invokes the callables of the queue entries it started
\* with in the order of the queue, which is the order they were enqueued in.
C11_EffectsAfterPass ==
  /\ trace.op \in {"render", "setup"} => EffectsRun = <<>>
  /\ trace.op = "flush" =>
       /\ Len(EffectsRun) = Len(EffectsDue)
       /\ \A i \in 1..Len(EffectsDue) :
            EffectsRun[i][2] =
              trace.flush.hooks[EffectsDue[i].path][EffectsDue[i].cursor + 1].effect

C11_Witness ==
  /\ trace.op = "flush"
  /\ Len(EffectsRun) >= 2
  /\ EffectsRun[1][2] # EffectsRun[2][2]
  /\ trace.passes >= 2

\* the last step was a setup call on a page that was mounted before
SetupAgainDone == trace.op = "setup" /\ trace.setups > 0

\* the queue entries a pass appended, given the queue before the sweep of the
\* pass: its last n entries
LastEntries(q, n) == SubSeq(q, Len(q) - n + 1, Len(q))

\* C14: after a setup call on a mounted page the slot arrays are those of a
\* first mount (no path and no value, deps or cleanup of the earlier mount);
\* in its pass App and every Item got the initial value 0 from useState and
\* the effect slot of every Item was enqueued.
C14_FreshMount ==
  SetupAgainDone =>
    /\ hooks = cleanupUnusedHooks(reconcileRoot(resetRoot(Blank, AppNode))).hooks
    /\ trace.pass.to = 0
    /\ DOMAIN trace.pass.shown = {"A", "B", "C"}
    /\ \A id \in {"A", "B", "C"} : trace.pass.shown[id].value = JSNum(0)
    /\ Len(trace.pass.pre.queue) >= 3
    /\ LastEntries(trace.pass.pre.queue, 3) =
         [i \in 1..3 |-> [path |-> trace.pass.shown[<<"A", "B", "C">>[i]].path,
                          cursor |-> 1]]

C14_Witness ==
  /\ SetupAgainDone
  /\ trace.pass.hooksBefore["root"][1].value # JSNum(0)
  /\ \E p \in DOMAIN trace.pass.hooksBefore :
       /\ Len(trace.pass.hooksBefore[p]) = 2
       /\ trace.pass.hooksBefore[p][1].value = JSNum(1)
       /\ trace.pass.hooksBefore[p][2].cleanup # NoFn

(***************************************************************************)
(* The setter alone: the page is one Item, and the client calls its setter *)
(* with plain values and with the updater.                                 *)
(***************************************************************************)
PlainValues == {JSNum(0), JSNum(1), JSNegZero, JSNaN}

InitSetter == Mounted(reconcileRoot(resetRoot(Blank, ItemNode(NoKey, "A"))))

\* the client calls setN(v) of the Item
SetPlain == \E v \in PlainValues : CallSetter("root", 0, [fn |-> FALSE, v |-> v])

\* the client calls setN(v => v + 1) of the Item
SetUpdater ==
  /\ "root" \in DOMAIN hooks
  /\ CallSetter("root", 0, [fn |-> TRUE, v |-> JSUndefined])

NextSetter == SetPlain \/ SetUpdater \/ RunRender \/ RunFlush

SpecSetter == InitSetter /\ [][NextSetter]_vars

\* the value the last call resolved: the plain value, or the updater applied to
\* the slot's value at the time of the call
Resolved ==
  IF trace.call.next.fn THEN PlusOne(trace.call.prev) ELSE trace.call.next.v

\* Object.is: NaN is NaN, and +0 is not -0
SameValue(a, b) == a.t = b.t /\ a.v = b.v

\* C2: a setter call on a live slot compares the resolved value with the slot's
\* value by Object.is; when they are the same value nothing is written and no
\* render pass is requested, otherwise the slot gets the resolved value and
\* one render pass is requested.
C2_SetterCompares ==
  (trace.op = "setState" /\ trace.call.live) =>
    IF SameValue(Resolved, trace.call.prev)
      THEN /\ hooks = trace.call.hooksBefore
           /\ trace.call.requests = 0
           /\ microtasks = trace.call.tasksBefore
      ELSE /\ hooks = [trace.call.hooksBefore EXCEPT
                         ![trace.call.path][trace.call.cursor + 1] = StateSlot(Resolved)]
           /\ trace.call.requests = 1
           /\ RenderTasks = 1

C2_Witness ==
  /\ trace.op = "setState"
  /\ trace.call.live
  /\ trace.call.next.fn
  /\ trace.call.captured # trace.call.prev
  /\ hooks[trace.call.path][trace.call.cursor + 1].value = PlusOne(trace.call.prev)

(***************************************************************************)
(* A component that calls its setter itself: the page is one Nest, whose   *)
(* effect and whose body call the setter; the client calls it as well.     *)
(***************************************************************************)
NestNode == VNode("Nest", NoKey, NoProps, <<>>)

InitNest == Mounted(reconcileRoot(resetRoot(Blank, NestNode)))

SpecNest == InitNest /\ [][NextSetter]_vars

\* C12: at most one render pass is pending at any time.  A pass in which a
\* body called the setter ran that component once, showed the value the pass
\* started with and left the request as one pending pass; a flush in which an
\* effect called the setter made no surface call and left one pending pass.
C12_OnePassAtATime ==
  /\ RenderTasks <= 1
  /\ (trace.op = "render" /\ trace.pass.requests > 0) =>
       /\ RenderTasks = 1
       /\ trace.pass.invoked = <<"root">>
       /\ trace.pass.shown["N"].value = JSNum(1)
       /\ hooks["root"][1].value = JSNum(2)
  /\ (trace.op = "flush" /\ trace.flush.requests > 0) =>
       /\ RenderTasks = 1
       /\ trace.flush.surface = {}
       /\ hooks["root"][1].value = PlusOne(trace.flush.hooks["root"][1].value)

C12_Witness ==
  /\ trace.op = "render"
  /\ trace.pass.requests = 1
  /\ trace.flush.requests = 1
  /\ trace.batch = <<>>
  /\ ncalls = 0

(***************************************************************************)
(* setup with a missing argument: on the page of App, the client calls     *)
(* setup without a root node or without a container, and calls it again    *)
(* with both.                                                              *)
(***************************************************************************)
MaxFailures == 1   \* calls of setup with a missing argument

\* the state after a call of setup that left the world w; trace.failed keeps
\* the arguments, whether the call threw, and the world before the call
SetupFailed(w, node, container) ==
  /\ Commit(w)
  /\ log' = w.log
  /\ trace' = [trace EXCEPT
       !.op = "setupFailed",
       !.failed = [count |-> @.count + 1, raised |-> w.err, node |-> node,
                   container |-> container, before |-> World]]

\* the client calls setup(null, container), setup(<App />, null) or setup(null, null)
SetupFails ==
  /\ trace.failed.count < MaxFailures
  /\ \E node \in {<<>>, <<AppNode>>}, container \in {NullDom, Container} :
       /\ node = <<>> \/ container = NullDom
       /\ SetupFailed(setupCall(World, node, container), node, container)
  /\ UNCHANGED <<ncalls, pin>>

\* the client calls setup(<App />, container) on the page
SetupAgain ==
  /\ trace.setups < MaxSetups
  /\ Remounted(reconcileRoot(resetRoot(World, AppNode)))
  /\ UNCHANGED <<ncalls, pin>>

NextSetup == Increment \/ RunRender \/ RunFlush \/ SetupFails \/ SetupAgain

SpecSetup == Init /\ [][NextSetup]_vars

\* the failed call left the tree, the surface, the root context and the hook
\* storage as they were
Untouched ==
  /\ dom = trace.failed.before.dom
  /\ rootInst = trace.failed.before.rootInst
  /\ rootNode = trace.failed.before.rootNode
  /\ hooks = trace.failed.before.hooks
  /\ cursor = trace.failed.before.cursor

\* C13: a setup call with a missing root node or container throws and leaves
\* the mounted tree, the surface, the root context and the hook storage as
\* they were, and a later setup call with both arguments raises nothing.
C13_NoPartialMount ==
  /\ trace.op = "setupFailed" => trace.failed.raised /\ Untouched
  /\ (trace.op = "setup" /\ trace.setups > 0) => ~trace.pass.err

\* a setup call without a container throws and changes nothing
NoContainerNoChange ==
  (trace.op = "setupFailed" /\ trace.failed.container = NullDom) =>
    trace.failed.raised /\ Untouched

\* every setup call with a missing argument throws
FailedSetupThrows == trace.op = "setupFailed" => trace.failed.raised

(***************************************************************************)
(* A host updated in place: the page is one <div> with the props pin.prev, *)
(* and one pass renders it again with the props pin.next.                  *)
(***************************************************************************)
PropKeys == {"title", "id", "hidden", "className", "style", "onClick"}

PropValues(key) ==
  CASE key = "title" -> {PStr("a"), PStr("b")}
    [] key = "id" -> {PStr("x")}
    [] key = "hidden" -> {PTrue}
    [] key = "className" -> {PStr("c")}
    [] key = "style" -> {PStyle(100, [color |-> "red"])}
    [] OTHER -> {PFn(101)}

AllProps ==
  UNION {{f \in [D -> UNION {PropValues(k) : k \in PropKeys}] :
            \A k \in D : f[k] \in PropValues(k)} : D \in SUBSET PropKeys}

HostNode(props) == Host("div", NoKey, props, <<>>)

\* the page after setup(<div {...input.prev} />, container)
MountedHost(w, input) ==
  /\ InitWith(w)
  /\ log = w.log
  /\ trace = [op |-> "mount", before |-> w.dom[w.rootInst[1].dom]]
  /\ ncalls = 0
  /\ pin = input

InitProps ==
  \E prev \in AllProps, next \in AllProps :
    MountedHost(setup(Blank, HostNode(prev)), [prev |-> prev, next |-> next])

UpdatedHost(w) ==
  /\ Commit(w)
  /\ log' = w.log
  /\ trace' = [op |-> "update", before |-> dom[rootInst[1].dom]]

\* one render pass with <div {...pin.next} /> as the root node
UpdateHost ==
  /\ trace.op = "mount"
  /\ UpdatedHost(render([World EXCEPT !.rootNode = HostNode(pin.next)]))
  /\ UNCHANGED <<ncalls, pin>>

NextProps == UpdateHost

SpecProps == InitProps /\ [][NextProps]_vars

PlainAttrs == {"title", "id", "hidden"}
Added == DOMAIN pin.next \ DOMAIN pin.prev
Dropped == DOMAIN pin.prev \ DOMAIN pin.next

\* pin.next is pin.prev with one attribute added and one attribute removed
OneAddedOneRemoved ==
  /\ Cardinality(Added) = 1 /\ Added \subseteq PlainAttrs
  /\ Cardinality(Dropped) = 1 /\ Dropped \subseteq PlainAttrs
  /\ \A k \in DOMAIN pin.prev \cap DOMAIN pin.next : pin.prev[k] = pin.next[k]

Handle == rootInst[1].dom

\* C7: a host updated in place with props that differ by one added and one
\* removed attribute gets the added attribute set and the removed attribute
\* removed, and nothing else of its handle is written.
C7_TwoAttributes ==
  (trace.op = "update" /\ OneAddedOneRemoved) =>
    /\ log = {[op |-> "setAttribute", h |-> Handle, k |-> a] : a \in Added}
               \cup {[op |-> "removeAttribute", h |-> Handle, k |-> r] : r \in Dropped}
    /\ \A a \in Added : /\ a \in DOMAIN dom[Handle].attrs
                        /\ dom[Handle].attrs[a] =
                             (IF pin.next[a] = PTrue THEN "" ELSE pin.next[a].s)
    /\ \A r \in Dropped : r \notin DOMAIN dom[Handle].attrs
    /\ \A k \in DOMAIN trace.before.attrs \ Dropped :
         k \in DOMAIN dom[Handle].attrs /\ dom[Handle].attrs[k] = trace.before.attrs[k]
    /\ DOMAIN dom[Handle].attrs = (DOMAIN trace.before.attrs \ Dropped) \cup Added
    /\ dom[Handle].style = trace.before.style
    /\ dom[Handle].className = trace.before.className
    /\ dom[Handle].listeners = trace.before.listeners
    /\ dom[Handle].store = trace.before.store

C7_Witness ==
  /\ trace.op = "update"
  /\ OneAddedOneRemoved
  /\ {"style", "onClick", "className"} \subseteq DOMAIN pin.prev
  /\ Added = {"title"}
  /\ Dropped = {"hidden"}

(***************************************************************************)
(* A no-op update: the page is the tree pin, and one pass renders the same *)
(* root node again.                                                        *)
(***************************************************************************)
MaxKids == 2

FullProps ==
  [title |-> PStr("a"), className |-> PStr("c"),
   style |-> PStyle(100, [color |-> "red"]), onClick |-> PFn(101)]

Leaves ==
  {createTextElement("a"),
   Host("span", NoKey, NoProps, <<>>),
   Host("span", "k", NoProps, <<>>),
   Host("div", NoKey, FullProps, <<createTextElement("b")>>),
   VNode(Fragment, NoKey, NoProps, <<createTextElement("c"), Host("p", NoKey, NoProps, <<>>)>>),
   ItemNode(NoKey, "X"),
   VNode("Styled", NoKey, NoProps, <<>>)}

KidLists == UNION {[1..n -> Leaves] : n \in 0..MaxKids}

Trees ==
  Leaves
    \cup {Host("div", NoKey, NoProps, kids) : kids \in KidLists}
    \cup {VNode(Fragment, NoKey, NoProps, kids) : kids \in KidLists}

\* the page after setup(tree, container)
MountedTree(w, tree) ==
  /\ InitWith(w)
  /\ log = w.log
  /\ trace = [op |-> "mount", err |-> w.err]
  /\ ncalls = 0
  /\ pin = tree

InitIdem == \E tree \in Trees : MountedTree(setup(Blank, tree), tree)

UpdatedTree(w) ==
  /\ Commit(w)
  /\ log' = w.log
  /\ trace' = [op |-> "update", err |-> w.err]

\* one render pass with the root node unchanged
UpdateTree ==
  /\ trace.op = "mount"
  /\ UpdatedTree(render(World))
  /\ UNCHANGED <<ncalls, pin>>

NextIdem == UpdateTree

SpecIdem == InitIdem /\ [][NextIdem]_vars

\* C6: reconciling a mounted tree against the same tree makes no call that
\* changes the surface.
C6_NoOpUpdate == trace.op = "update" => log = {}

\* the tree holds a Styled
RECURSIVE HasStyled(_)
HasStyled(node) ==
  \/ node.type = "Styled"
  \/ \E i \in 1..Len(node.children) : HasStyled(node.children[i])

\* a tree without a component that makes a new style object in every
\* invocation is updated without a call that changes the surface
NoOpUpdateUnlessStyled == (trace.op = "update" /\ ~HasStyled(pin)) => log = {}

(***************************************************************************)
(* createChildPath alone: pin is a list of siblings, and the step gives    *)
(* every sibling its path.                                                 *)
(***************************************************************************)
MaxSiblings == 2

SiblingTypes == {"div", "span", TEXT_ELEMENT, Fragment, "Item", "MemoA", "MemoB", "Anon"}
SiblingKeys == {NoKey, "k1", "k2"}

Siblings ==
  {VNode(type, key, NoProps, <<>>) : type \in SiblingTypes, key \in SiblingKeys}

SiblingLists == UNION {[1..n -> Siblings] : n \in 0..MaxSiblings}

InitPath ==
  /\ InitWith(Blank)
  /\ log = {}
  /\ trace = [op |-> "none", paths |-> <<>>]
  /\ ncalls = 0
  /\ pin \in SiblingLists

\* childVNodes.forEach((childVNode, i) => createChildPath(path, key, i, type, childVNodes))
PathSiblings ==
  /\ trace.op = "none"
  /\ trace' = [op |-> "paths",
               paths |-> [i \in 1..Len(pin) |->
                            createChildPath("root", pin[i].key, i - 1, pin[i].type, pin)]]
  /\ UNCHANGED <<hooks, cursor, visited, queue, rootNode, rootInst, dom, nextId,
                 microtasks, setters, effCount, cleanCount, log, ncalls, pin>>

NextPath == PathSiblings

SpecPath == InitPath /\ [][NextPath]_vars

\* the explicit keys of the siblings are pairwise distinct
KeysDistinct ==
  \A i, j \in 1..Len(pin) :
    (i < j /\ pin[i].key # NoKey /\ pin[j].key # NoKey) => pin[i].key # pin[j].key

\* C8: the paths of siblings whose explicit keys are pairwise distinct are
\* pairwise distinct.
C8_DistinctPaths ==
  (trace.op = "paths" /\ KeysDistinct) =>
    \A i, j \in 1..Len(pin) : i < j => trace.paths[i] # trace.paths[j]

\* siblings of one type, or all keyed with distinct keys, get distinct paths
DistinctPathsOfOneType ==
  (trace.op = "paths" /\ KeysDistinct
     /\ \A i, j \in 1..Len(pin) : PathPrefix(pin[i].type) # PathPrefix(pin[j].type)
                                    \/ pin[i].type = pin[j].type) =>
    \A i, j \in 1..Len(pin) : i < j => trace.paths[i] # trace.paths[j]

(***************************************************************************)
(* shallowEquals and deepEquals on primitives and on arrays and objects   *)
(* of one level (utils/equals.ts).                                         *)
(***************************************************************************)
MaxLength == 2

Primitives == {JSNum(0), JSNegZero, JSNaN, JSNum(1), JSUndefined, JSNull}

\* two arrays of the same content and of different identity
Inner == {JSArr(3, <<JSNum(0)>>), JSArr(4, <<JSNum(0)>>)}

ElemValues == {JSNum(0), JSNegZero, JSNaN} \cup Inner

ObjKeys == {"a", "b"}

ArraysOf(r) ==
  {JSArr(r, elems) : elems \in UNION {[1..n -> ElemValues] : n \in 0..MaxLength}}

ObjectsOf(r) ==
  {JSObj(r, props) : props \in UNION {[ks -> ElemValues] : ks \in SUBSET ObjKeys}}

IsObject(x) == x.t = "object"

\* an array or an object whose own values are all primitives
OneLevel(x) ==
  /\ IsObject(x)
  /\ \A key \in KeysOf(x) : ~IsObject(ValueAt(x, key))

\* the same keys, with Object.is-equal values
SameEntries(a, b) ==
  /\ a.arr = b.arr
  /\ KeysOf(a) = KeysOf(b)
  /\ \A key \in KeysOf(a) : ObjectIs(ValueAt(a, key), ValueAt(b, key))

\* b is a itself, or a primitive, or another array or object
InitEquals ==
  /\ InitWith(Blank)
  /\ log = {}
  /\ trace = [op |-> "none", shallow |-> FALSE, deep |-> FALSE]
  /\ ncalls = 0
  /\ \E a \in Primitives \cup ArraysOf(1) \cup ObjectsOf(1) :
       \E b \in {a} \cup Primitives \cup ArraysOf(2) \cup ObjectsOf(2) :
         pin = [a |-> a, b |-> b]

Compare ==
  /\ trace.op = "none"
  /\ trace' = [op |-> "compared",
               shallow |-> shallowEquals(pin.a, pin.b),
               deep |-> deepEquals(pin.a, pin.b)]
  /\ UNCHANGED <<hooks, cursor, visited, queue, rootNode, rootInst, dom, nextId,
                 microtasks, setters, effCount, cleanCount, log, ncalls, pin>>

NextEquals == Compare

SpecEquals == InitEquals /\ [][NextEquals]_vars

\* C15: on primitives and on arrays and objects of one level, shallowEquals
\* and deepEquals both answer true for (NaN, NaN), false for (0, -0) in
\* either order, what Object.is answers for any two primitives, and true for
\* two distinct objects that have the same keys with Object.is-equal values.
C15_EqualsByObjectIs ==
  trace.op = "compared" =>
    /\ (pin.a = JSNaN /\ pin.b = JSNaN) => (trace.shallow /\ trace.deep)
    /\ ({pin.a, pin.b} = {JSNum(0), JSNegZero}) => (~trace.shallow /\ ~trace.deep)
    /\ (~IsObject(pin.a) /\ ~IsObject(pin.b)) =>
         (trace.shallow = ObjectIs(pin.a, pin.b) /\ trace.deep = ObjectIs(pin.a, pin.b))
    /\ (/\ OneLevel(pin.a) /\ OneLevel(pin.b)
        /\ pin.a.ref # pin.b.ref
        /\ SameEntries(pin.a, pin.b)) => (trace.shallow /\ trace.deep)

\* two distinct objects {a: NaN, b: -0} were compared and found equal
C15_Witness ==
  /\ trace.op = "compared"
  /\ pin.a = JSObj(1, [key \in ObjKeys |-> IF key = "a" THEN JSNaN ELSE JSNegZero])
  /\ pin.b = JSObj(2, [key \in ObjKeys |-> IF key = "a" THEN JSNaN ELSE JSNegZero])
  /\ trace.shallow
  /\ trace.deep

(***************************************************************************)
(* normalizeNode on nested sequences of arbitrary values (elements.ts).    *)
(***************************************************************************)
MaxItems == 2

\* A value handed to normalizeNode.  kind is what typeof, Array.isArray and
\* isVNode tell apart; an object carries its identity (ref).
RawValue(kind, js, s, ref, node, items) ==
  [kind |-> kind, js |-> js, s |-> s, ref |-> ref, node |-> node, items |-> items]

RNull == RawValue("null", JSUndefined, "", 0, <<>>, <<>>)
RUndefined == RawValue("undefined", JSUndefined, "", 0, <<>>, <<>>)
RBool(b) == RawValue("boolean", JSUndefined, b, 0, <<>>, <<>>)
RStr(s) == RawValue("string", JSUndefined, s, 0, <<>>, <<>>)
RNum(js) == RawValue("number", js, "", 0, <<>>, <<>>)
RNode(ref, node) == RawValue("vnode", JSUndefined, "", ref, <<node>>, <<>>)
RObj(ref) == RawValue("object", JSUndefined, "", ref, <<>>, <<>>)
RFn(ref) == RawValue("function", JSUndefined, "", ref, <<>>, <<>>)
RArr(items) == RawValue("array", JSUndefined, "", 0, <<>>, items)

\* What normalizeNode returns: null, one node (with the identity of the
\* object), or an array.  A node made by createTextElement is a new object,
\* whose identity is written 0.
NullRes == [shape |-> "null", ref |-> 0, node |-> <<>>, list |-> <<>>]
NodeRes(ref, node) == [shape |-> "node", ref |-> ref, node |-> <<node>>, list |-> <<>>]
ListRes(list) == [shape |-> "list", ref |-> 0, node |-> <<>>, list |-> list]

\* isEmptyValue(value): null, undefined and booleans
isEmptyValue(raw) == raw.kind \in {"null", "undefined", "boolean"}

\* isVNode(value): an object with "type" and "props"
isVNode(raw) == raw.kind = "vnode"

\* Array.prototype.flat(): the arrays among the elements are spliced in, one level
RECURSIVE Flat(_)
Flat(results) ==
  IF results = <<>> THEN <<>>
  ELSE (IF Head(results).shape = "list" THEN Head(results).list ELSE <<Head(results)>>)
         \o Flat(Tail(results))

\* .filter((child) => child !== null)
NotNull(results) == SelectSeq(results, LAMBDA res : res.shape # "null")

\* typeof node === "string" ? node : node.toString()
TextOf(raw) == IF raw.kind = "string" THEN raw.s ELSE ToText(raw.js)

\* a normalizeNode whose array branch leaves the filter out
RECURSIVE normalizeNodeUnfiltered(_)
normalizeNodeUnfiltered(raw) ==
  IF isEmptyValue(raw) THEN NullRes
  ELSE IF isVNode(raw) THEN NodeRes(raw.ref, raw.node[1])
  ELSE IF raw.kind \in {"string", "number"} THEN NodeRes(0, createTextElement(TextOf(raw)))
  ELSE IF raw.kind = "array"
    THEN ListRes(Flat([i \in 1..Len(raw.items) |-> normalizeNodeUnfiltered(raw.items[i])]))
  ELSE NullRes

RECURSIVE normalizeNode(_)
normalizeNode(raw) ==
  IF isEmptyValue(raw) THEN NullRes
  ELSE IF isVNode(raw) THEN NodeRes(raw.ref, raw.node[1])
  ELSE IF raw.kind \in {"string", "number"} THEN NodeRes(0, createTextElement(TextOf(raw)))
  ELSE IF raw.kind = "array"
    THEN ListRes(NotNull(Flat([i \in 1..Len(raw.items) |-> normalizeNode(raw.items[i])])))
  ELSE NullRes

\* the values of the inputs: every kind, and nested arrays of depth 1 to 3
RawLeaves ==
  {RNull, RUndefined, RBool("true"), RBool("false"), RStr("a"), RStr(""),
   RNum(JSNum(0)), RNum(JSNum(7)), RNum(JSNaN),
   RNode(1, Host("p", NoKey, NoProps, <<>>)), RNode(2, Host("p", NoKey, NoProps, <<>>)),
   RNode(3, createTextElement("a")), RObj(4), RFn(5)}

RawArrays ==
  {RArr(<<>>),
   RArr(<<RNull>>),
   RArr(<<RStr("b"), RNode(1, Host("p", NoKey, NoProps, <<>>))>>),
   RArr(<<RArr(<<RNum(JSNum(1)), RBool("true")>>), RStr("c")>>),
   RArr(<<RArr(<<RArr(<<>>)>>)>>),
   RArr(<<RObj(4), RArr(<<RUndefined, RArr(<<RNode(2, Host("p", NoKey, NoProps, <<>>)), RNum(JSNegZero)>>)>>)>>)}

\* what the sequence is to become: the nodes of the values from left to
\* right, nested sequences read in place
RECURSIVE NodesInOrder(_)
NodesInOrder(raws) ==
  IF raws = <<>> THEN <<>>
  ELSE LET raw == Head(raws)
       IN (CASE raw.kind = "vnode" -> <<NodeRes(raw.ref, raw.node[1])>>
             [] raw.kind = "string" -> <<NodeRes(0, VNode(TEXT_ELEMENT, NoKey, [nodeValue |-> PStr(raw.s)], <<>>))>>
             [] raw.kind = "number" -> <<NodeRes(0, VNode(TEXT_ELEMENT, NoKey, [nodeValue |-> PStr(ToText(raw.js))], <<>>))>>
             [] raw.kind = "array" -> NodesInOrder(raw.items)
             [] OTHER -> <<>>)
          \o NodesInOrder(Tail(raws))

RECURSIVE Depth(_)
Depth(raw) ==
  IF raw.kind # "array" THEN 0
  ELSE 1 + (IF raw.items = <<>> THEN 0
            ELSE CHOOSE d \in {Depth(raw.items[i]) : i \in 1..Len(raw.items)} :
                   \A i \in 1..Len(raw.items) : Depth(raw.items[i]) <= d)

InitNormalize ==
  /\ InitWith(Blank)
  /\ log = {}
  /\ trace = [op |-> "none", out |-> NullRes]
  /\ ncalls = 0
  /\ \E n \in 0..MaxItems : pin \in [1..n -> RawLeaves \cup RawArrays]

Normalize ==
  /\ trace.op = "none"
  /\ trace' = [op |-> "normalized", out |-> normalizeNode(RArr(pin))]
  /\ UNCHANGED <<hooks, cursor, visited, queue, rootNode, rootInst, dom, nextId,
                 microtasks, setters, effCount, cleanCount, log, ncalls, pin>>

NextNormalize == Normalize

SpecNormalize == InitNormalize /\ [][NextNormalize]_vars

\* C16: normalizeNode of a sequence returns a flat sequence that holds only
\* nodes (no null and no nested sequence), in the left-to-right order of the
\* input: a string or a number has become a TEXT node with the stringified
\* value, a node is the same object, and every other value has left nothing.
C16_FlatNodesInOrder ==
  trace.op = "normalized" =>
    /\ trace.out.shape = "list"
    /\ \A i \in 1..Len(trace.out.list) : trace.out.list[i].shape = "node"
    /\ trace.out.list = NodesInOrder(pin)

\* a sequence with a sequence nested three deep and an empty value was
\* normalized to the nodes it holds
C16_Witness ==
  /\ trace.op = "normalized"
  /\ Len(pin) = 2
  /\ Depth(pin[1]) = 3
  /\ pin[2] = RBool("false")
  /\ Len(trace.out.list) = 2
  /\ trace.out.list[1].ref = 2
  /\ trace.out.list[2].node[1].props.nodeValue = PStr("0")

(***************************************************************************)
(* One call of reconcile on a child of a mounted parent: pin.old are the   *)
(* children the parent was mounted with, pin.at the child, pin.node the    *)
(* new node (none: the empty sequence).                                    *)
(***************************************************************************)
MaxOld == 2

OldKids ==
  {createTextElement("a"),
   Host("span", NoKey, NoProps, <<createTextElement("s")>>),
   Host("span", "k", NoProps, <<>>),
   VNode(Fragment, NoKey, NoProps, <<createTextElement("c"), Host("i", NoKey, NoProps, <<>>)>>),
   PickNode("p"),
   PickNode("two"),
   OuterNode("two"),
   VNode(Fragment, NoKey, NoProps, <<PickNode("one"), OuterNode("p")>>)}

NewKids ==
  {createTextElement("b"),
   Host("span", NoKey, NoProps, <<createTextElement("t")>>),
   Host("span", "k", NoProps, <<>>),
   Host("span", "j", NoProps, <<>>),
   Host("div", NoKey, NoProps, <<>>),
   VNode(Fragment, NoKey, NoProps, <<createTextElement("d")>>),
   PickNode("span"),
   PickNode("none"),
   PickNode("one"),
   OuterNode("p"),
   OuterNode("none")}

ParentTypes == {"ul", Fragment}

\* the handle under which the children of the root instance are placed
ParentDomOf(instance) == IF instance.kind = "host" THEN instance.dom ELSE Container

\* the surface nodes an instance places under its parent handle, read off the
\* kinds of the instances
RECURSIVE SurfaceOf(_)
RECURSIVE SurfaceOfAll(_, _)
SurfaceOfAll(children, i) ==
  IF i > Len(children) THEN <<>>
  ELSE SurfaceOf(children[i]) \o SurfaceOfAll(children, i + 1)

SurfaceOf(instance) ==
  IF instance.kind \in {"host", "text"} THEN <<instance.dom>>
  ELSE SurfaceOfAll(instance.children, 1)

\* the identities of the instances and surface nodes of a subtree
RECURSIVE IdsOf(_)
IdsOf(instance) ==
  {instance.id}
    \cup (IF instance.kind \in {"host", "text"} THEN {instance.dom} ELSE {})
    \cup UNION {IdsOf(instance.children[i]) : i \in 1..Len(instance.children)}

Range(seq) == {seq[i] : i \in 1..Len(seq)}

MountedChild(w, input) ==
  /\ InitWith(w)
  /\ log = w.log
  /\ trace = [op |-> "mount", err |-> w.err, old |-> <<>>, returned |-> <<>>,
              kidsBefore |-> <<>>, parentDom |-> NullDom, fresh |-> 0]
  /\ ncalls = 0
  /\ pin = input

InitReconcile ==
  \E parent \in ParentTypes, n \in 1..MaxOld :
    \E old \in [1..n -> OldKids], at \in 1..n :
      \E node \in {<<>>} \cup {<<kid>> : kid \in NewKids} :
        MountedChild(setup(Blank, VNode(parent, NoKey, NoProps, old)),
                     [parent |-> parent, old |-> old, at |-> at, node |-> node])

\* the path reconcileChildren gives the child at position pin.at
PathAt(parentInstance) ==
  createChildPath(parentInstance.path,
                  IF pin.node # <<>> THEN pin.node[1].key ELSE NoKey,
                  pin.at - 1,
                  IF pin.node # <<>> THEN pin.node[1].type ELSE "undefined",
                  IF pin.node # <<>>
                    THEN [i \in 1..Len(pin.old) |-> IF i = pin.at THEN pin.node[1] ELSE pin.old[i]]
                    ELSE SubSeq(pin.old, 1, pin.at - 1))

ReconciledChild(res, old, parentDom) ==
  /\ Commit(res.w)
  /\ log' = res.w.log
  /\ trace' = [op |-> "reconcile", err |-> res.w.err, old |-> <<old>>,
               returned |-> res.r, kidsBefore |-> dom[parentDom].kids,
               parentDom |-> parentDom, fresh |-> nextId]

\* reconcile(parentDom, instance, node, path)
ReconcileChild ==
  /\ trace.op = "mount"
  /\ ReconciledChild(reconcile(World, ParentDomOf(rootInst[1]),
                               <<rootInst[1].children[pin.at]>>, pin.node,
                               PathAt(rootInst[1])),
                     rootInst[1].children[pin.at], ParentDomOf(rootInst[1]))
  /\ UNCHANGED <<ncalls, pin>>

NextReconcile == ReconcileChild

SpecReconcile == InitReconcile /\ [][NextReconcile]_vars

\* C17: a reconcile call with an instance and a node whose type or key
\* differs from the instance's detaches the surface nodes of the old instance
\* and returns another instance, made of new instances and new surface nodes
\* only; a call with the same type and key returns the same instance, holding
\* the new node.
C17_ReplaceOrKeep ==
  (trace.op = "reconcile" /\ pin.node # <<>>) =>
    /\ ~trace.err
    /\ trace.returned # <<>>
    /\ IF trace.old[1].node.type # pin.node[1].type \/ trace.old[1].key # pin.node[1].key
         THEN /\ \A h \in Range(SurfaceOf(trace.old[1])) : dom[h].parent = NullDom
              /\ trace.returned[1].id # trace.old[1].id
              /\ \A id \in IdsOf(trace.returned[1]) : id >= trace.fresh
              /\ trace.returned[1].node = pin.node[1]
         ELSE /\ trace.returned[1].id = trace.old[1].id
              /\ trace.returned[1].node = pin.node[1]

\* a component whose output was a fragment of two was replaced by a host
C17_Witness ==
  /\ trace.op = "reconcile"
  /\ pin.node = <<Host("div", NoKey, NoProps, <<>>)>>
  /\ trace.old[1].node = OuterNode("two")
  /\ Len(SurfaceOf(trace.old[1])) = 2
  /\ trace.returned[1].kind = "host"
  /\ trace.returned[1].id # trace.old[1].id

\* a host was kept and holds the new node
C17_WitnessKept ==
  /\ trace.op = "reconcile"
  /\ pin.node = <<Host("span", NoKey, NoProps, <<createTextElement("t")>>)>>
  /\ trace.old[1].node = Host("span", NoKey, NoProps, <<createTextElement("s")>>)
  /\ trace.returned[1].id = trace.old[1].id
  /\ trace.returned[1].node = pin.node[1]

\* C18: a reconcile call with an instance and no node returns none; afterwards
\* no surface node of the instance's subtree is a child of the parent handle,
\* and the other children of the parent handle are as they were, in order.
C18_RemoveSubtree ==
  (trace.op = "reconcile" /\ pin.node = <<>>) =>
    /\ ~trace.err
    /\ trace.returned = <<>>
    /\ \A h \in IdsOf(trace.old[1]) : h \notin Range(dom[trace.parentDom].kids)
    /\ dom[trace.parentDom].kids =
         SelectSeq(trace.kidsBefore, LAMBDA h : h \notin Range(SurfaceOf(trace.old[1])))

\* a component of a component of a fragment of two was removed from between
\* two siblings' nodes
C18_Witness ==
  /\ trace.op = "reconcile"
  /\ pin.node = <<>>
  /\ pin.at = 1
  /\ Len(pin.old) = 2
  /\ trace.old[1].node = OuterNode("two")
  /\ Len(SurfaceOf(trace.old[1])) = 2
  /\ Len(trace.kidsBefore) = 3
  /\ Len(dom[trace.parentDom].kids) = 1

(***************************************************************************)
(* Children-list reconciliation: a parent mounted with the children        *)
(* pin.old is rendered again with the children pin.new.                    *)
(***************************************************************************)
ListKids == NewKids \cup {PickNode("two"), createTextElement("a")}

MountedList(w, input) ==
  /\ InitWith(w)
  /\ log = w.log
  /\ trace = [op |-> "mount", err |-> w.err, freshOrder |-> <<>>, fresh |-> 0]
  /\ ncalls = 0
  /\ pin = input

InitChildren ==
  \E parent \in ParentTypes, n \in 0..MaxOld, m \in 0..MaxOld :
    \E old \in [1..n -> OldKids], new \in [1..m -> ListKids] :
      MountedList(setup(Blank, VNode(parent, NoKey, NoProps, old)),
                  [parent |-> parent, old |-> old, new |-> new])

\* tag and text of the children of the parent handle, in order
OrderUnder(w) ==
  LET kids == w.dom[ParentDomOf(w.rootInst[1])].kids
  IN [i \in 1..Len(kids) |-> <<w.dom[kids[i]].tag, w.dom[kids[i]].text>>]

ReconciledList(w, fresh) ==
  /\ Commit(w)
  /\ log' = w.log
  /\ trace' = [op |-> "children", err |-> w.err, freshOrder |-> OrderUnder(fresh),
               fresh |-> nextId]

\* reconcile of the parent with the new node, which calls
\* reconcileChildren(parentDom, instance, node.props.children)
ReconcileList ==
  /\ trace.op = "mount"
  /\ ReconciledList(render([World EXCEPT !.rootNode = VNode(pin.parent, NoKey, NoProps, pin.new)]),
                    setup(Blank, VNode(pin.parent, NoKey, NoProps, pin.new)))
  /\ UNCHANGED <<ncalls, pin>>

NextChildren == ReconcileList

SpecChildren == InitChildren /\ [][NextChildren]_vars

\* the instance children of the parent are the instances of the new nodes, in
\* the order of the new list
ChildrenFollowList ==
  trace.op = "children" =>
    /\ ~trace.err
    /\ [i \in 1..Len(rootInst[1].children) |-> rootInst[1].children[i].node] = pin.new

\* C19: after children-list reconciliation the instance children of the
\* parent are the results in the order of the new list, and the surface nodes
\* under the parent handle are in that same order, the order in which a first
\* mount of the new list places them.
C19_SurfaceInListOrder ==
  trace.op = "children" =>
    /\ ~trace.err
    /\ [i \in 1..Len(rootInst[1].children) |-> rootInst[1].children[i].node] = pin.new
    /\ dom[ParentDomOf(rootInst[1])].kids = SurfaceOfAll(rootInst[1].children, 1)
    /\ OrderUnder(World) = trace.freshOrder

\* the same surface nodes are under the parent handle, in whatever order
SurfaceNodesOfList ==
  trace.op = "children" =>
    /\ Range(dom[ParentDomOf(rootInst[1])].kids) = Range(SurfaceOfAll(rootInst[1].children, 1))
    /\ Len(dom[ParentDomOf(rootInst[1])].kids) = Len(SurfaceOfAll(rootInst[1].children, 1))

\* the output of a kept component was replaced (a fragment of two by a p) in
\* front of a sibling, and the new node was placed after the sibling's
ReplacedBehindSibling ==
  /\ trace.op = "children"
  /\ pin.parent = "ul"
  /\ pin.old = <<OuterNode("two"), Host("span", "k", NoProps, <<>>)>>
  /\ pin.new = <<OuterNode("p"), Host("span", "k", NoProps, <<>>)>>
  /\ rootInst[1].children[1].id < trace.fresh
  /\ OrderUnder(World) = <<<<"span", "">>, <<"p", "">>>>
  /\ trace.freshOrder = <<<<"p", "">>, <<"span", "">>>>

(***************************************************************************)
(* One call of useEffect: the component at path "c" holds the slots        *)
(* pin.prev (none, a state slot, or an effect record) and calls            *)
(* useEffect(effect, pin.deps) at cursor 0.                                *)
(***************************************************************************)
DepValues == {JSNum(0), JSNegZero, JSNaN, JSNum(1)}

DepLists == UNION {[1..n -> DepValues] : n \in 0..MaxLength}

DepsArgs == {NoDeps} \cup {Deps(list) : list \in DepLists}

PrevSlots ==
  {<<>>, <<StateSlot(JSNum(0))>>}
    \cup {<<EffectSlot(deps, cleanup, "old")>> : deps \in DepsArgs, cleanup \in {NoFn, "old"}}

InitEffect ==
  /\ \E prev \in PrevSlots, deps \in DepsArgs :
       /\ InitWith([Blank EXCEPT !.hooks = IF prev = <<>> THEN NoHooks ELSE ("c" :> prev)])
       /\ pin = [prev |-> prev, deps |-> deps]
  /\ log = {}
  /\ trace = [op |-> "none"]
  /\ ncalls = 0

EffectCalled(w) ==
  /\ Commit(w)
  /\ log' = w.log
  /\ trace' = [op |-> "useEffect"]

\* the component body: useEffect(effect, deps)
CallUseEffect ==
  /\ trace.op = "none"
  /\ EffectCalled(leaveComponent(useEffect(enterComponent(World, "c"), "new", pin.deps)))
  /\ UNCHANGED <<ncalls, pin>>

NextEffect == CallUseEffect

SpecEffect == InitEffect /\ [][NextEffect]_vars

\* there is an effect record at the slot before the call
HadRecord == pin.prev # <<>> /\ pin.prev[1].kind = "effect"

\* the two dependency lists differ in length or at some position under Object.is
ListsDiffer(a, b) ==
  \/ Len(a) # Len(b)
  \/ \E i \in 1..Len(a) : ~ObjectIs(a[i], b[i])

\* C20: useEffect enqueues its slot if and only if deps is absent, or the slot
\* holds no previous effect record, or the previous record's deps were absent,
\* or the two dependency lists differ in length or at some position under
\* Object.is; in every case the slot then holds a new record with the new
\* deps, the new effect and the previous record's cleanup.
C20_EnqueueIffChanged ==
  trace.op = "useEffect" =>
    /\ queue \in {<<>>, <<[path |-> "c", cursor |-> 0]>>}
    /\ (queue # <<>>) <=>
         \/ ~pin.deps.has
         \/ ~HadRecord
         \/ ~pin.prev[1].deps.has
         \/ ListsDiffer(pin.prev[1].deps.list, pin.deps.list)
    /\ hooks["c"][1] =
         EffectSlot(pin.deps, IF HadRecord THEN pin.prev[1].cleanup ELSE NoFn, "new")

\* a record with the deps [NaN, -0] and a cleanup met the deps [NaN, -0]: the
\* slot was not enqueued and holds the new effect and the old cleanup
C20_Witness ==
  /\ trace.op = "useEffect"
  /\ pin.deps = Deps(<<JSNaN, JSNegZero>>)
  /\ pin.prev = <<EffectSlot(Deps(<<JSNaN, JSNegZero>>), "old", "old")>>
  /\ queue = <<>>
  /\ hooks["c"][1].effect = "new"
  /\ hooks["c"][1].cleanup = "old"

\* a record with the deps [0] met the deps [-0] and was enqueued
C20_WitnessChanged ==
  /\ trace.op = "useEffect"
  /\ pin.deps = Deps(<<JSNegZero>>)
  /\ pin.prev = <<EffectSlot(Deps(<<JSNum(0)>>), "old", "old")>>
  /\ queue = <<[path |-> "c", cursor |-> 0]>>

(***************************************************************************)
(* Effect flushes of one component, Flip, at the path "c".  Flip calls one *)
(* hook at cursor 0: useState(0), useEffect(e) whose effect returns a      *)
(* cleanup, or useEffect(plain) whose effect returns undefined.  The       *)
(* client may call the setter of the slot and may call setup again, which  *)
(* clears the slot arrays and leaves the queue.                            *)
(***************************************************************************)
MaxRenders == 3

FlipModes == {"state", "e", "plain"}

\* the body of Flip
FlipBody(w, mode) ==
  IF mode = "state" THEN useState(w, JSNum(0)).w ELSE useEffect(w, mode, NoDeps)

InitFlush ==
  /\ InitWith(Blank)
  /\ log = {}
  /\ trace = [op |-> "none", callLog |-> <<>>, history |-> <<>>,
              before |-> [hooks |-> NoHooks, queue |-> <<>>], err |-> FALSE]
  /\ ncalls = 0
  /\ pin = 0

Stepped(w, op) ==
  /\ Commit(w)
  /\ trace' = [trace EXCEPT !.op = op, !.callLog = <<>>]

\* one invocation of Flip
RenderFlip ==
  /\ ncalls < MaxRenders
  /\ \E mode \in FlipModes :
       Stepped(leaveComponent(FlipBody(enterComponent(World, "c"), mode)), "render")
  /\ ncalls' = ncalls + 1
  /\ UNCHANGED <<log, pin>>

\* the client calls the setter of slot 0 with 5
SetFlip ==
  /\ ncalls < MaxRenders
  /\ <<"c", 0>> \in DOMAIN setters
  /\ Stepped(setState(World, "c", 0, [fn |-> FALSE, v |-> JSNum(5)]), "setState")
  /\ ncalls' = ncalls + 1
  /\ UNCHANGED <<log, pin>>

\* the client calls setup with a root that holds no component
SetupFlip ==
  /\ ncalls < MaxRenders
  /\ hooks # NoHooks
  /\ Stepped(setup(World, createTextElement("")), "setup")
  /\ ncalls' = ncalls + 1
  /\ UNCHANGED <<log, pin>>

FlushedFlip(w) ==
  /\ Commit(w)
  /\ trace' = [op |-> "flush", callLog |-> w.callLog,
               history |-> trace.history \o w.callLog,
               before |-> [hooks |-> hooks, queue |-> queue], err |-> w.err]

\* the microtask of enqueueEffects
FlushFlip ==
  /\ \E i \in 1..Len(microtasks) : microtasks[i] = "effects"
  /\ FlushedFlip(flushEffects([World EXCEPT
                    !.microtasks = SelectSeq(@, LAMBDA t : t # "effects")]))
  /\ UNCHANGED <<log, ncalls, pin>>

NextFlush == RenderFlip \/ SetFlip \/ SetupFlip \/ FlushFlip

SpecFlush == InitFlush /\ [][NextFlush]_vars

\* the entry resolves to an effect record in the slot arrays hs
Resolves(hs, entry) ==
  /\ entry.path \in DOMAIN hs
  /\ entry.cursor + 1 <= Len(hs[entry.path])
  /\ hs[entry.path][entry.cursor + 1].kind = "effect"

\* the invocations a flush of the queue q owes, the slot arrays being hs: for
\* each entry that resolves, the stored cleanup if there is one, then the
\* effect; what the effect returned is the cleanup the next entry meets
RECURSIVE Owed(_, _)
Owed(hs, q) ==
  IF q = <<>> THEN <<>>
  ELSE IF ~Resolves(hs, Head(q)) THEN Owed(hs, Tail(q))
  ELSE LET slot == hs[Head(q).path][Head(q).cursor + 1]
       IN (IF slot.cleanup # NoFn THEN <<<<"cleanup", slot.cleanup>>>> ELSE <<>>)
            \o <<<<"effect", slot.effect>>>>
            \o Owed([hs EXCEPT ![Head(q).path][Head(q).cursor + 1].cleanup =
                                 IF slot.effect = "plain" THEN NoFn ELSE slot.effect],
                    Tail(q))

\* C21: a flush invokes nothing for an entry whose path has no slot array or
\* whose slot is no effect record, and raises nothing; for every other entry
\* it invokes the stored cleanup, if there is one, once and then the effect,
\* and the slot holds what the effect returned if and only if that is
\* callable.  Over all flushes no cleanup is invoked twice in a row: between
\* two invocations of a cleanup there is an invocation of its effect.
C21_CleanupThenEffect ==
  /\ trace.op = "flush" =>
       /\ ~trace.err
       /\ trace.callLog = Owed(trace.before.hooks, trace.before.queue)
       /\ queue = <<>>
       /\ \A i \in 1..Len(trace.before.queue) :
            Resolves(trace.before.hooks, trace.before.queue[i]) =>
              hooks[trace.before.queue[i].path][trace.before.queue[i].cursor + 1].cleanup =
                (IF hooks[trace.before.queue[i].path][trace.before.queue[i].cursor + 1].effect = "plain"
                   THEN NoFn ELSE "e")
  /\ \A i \in 1..Len(trace.history) :
       trace.history[i][1] = "cleanup" =>
         /\ i > 1
         /\ trace.history[i - 1] = <<"effect", trace.history[i][2]>>

\* a flush met two entries of the slot, which held a cleanup: cleanup,
\* effect, cleanup, effect
C21_Witness ==
  /\ trace.op = "flush"
  /\ Len(trace.before.queue) = 2
  /\ trace.callLog = <<<<"cleanup", "e">>, <<"effect", "e">>, <<"cleanup", "e">>, <<"effect", "e">>>>

\* a flush met an entry whose slot a setter had overwritten, and one whose
\* slot arrays setup had cleared, and invoked nothing
C21_WitnessSkipped ==
  /\ trace.op = "flush"
  /\ trace.before.queue # <<>>
  /\ trace.callLog = <<>>
  /\ "c" \in DOMAIN trace.before.hooks

C21_WitnessCleared ==
  /\ trace.op = "flush"
  /\ trace.before.queue # <<>>
  /\ trace.callLog = <<>>
  /\ trace.before.hooks = NoHooks

\* an effect that returns undefined left the slot without a cleanup
C21_WitnessPlain ==
  /\ trace.op = "flush"
  /\ trace.callLog = <<<<"cleanup", "e">>, <<"effect", "plain">>>>
  /\ hooks["c"][1].cleanup = NoFn

(***************************************************************************)
(* A component with a lazy initializer: the page is <Lazy />, and the      *)
(* client calls its setter with undefined, null or a number.               *)
(***************************************************************************)
LazyNode == VNode("Lazy", NoKey, NoProps, <<>>)

LazyValues == {JSUndefined, JSNull, JSNum(0), JSNum(1), JSNum(7), JSNaN, JSNegZero}

InitLazy == Mounted(reconcileRoot(resetRoot(Blank, LazyNode)))

\* the client calls setN(v) of Lazy
SetLazy == \E v \in LazyValues : CallSetter("root", 0, [fn |-> FALSE, v |-> v])

NextLazy == SetLazy \/ RunRender

SpecLazy == InitLazy /\ [][NextLazy]_vars

\* the initializer was invoked in the last pass
InitializerRan == \E i \in 1..Len(trace.callLog) : trace.callLog[i][1] = "init"

\* C22: in a render of a path whose state slot exists already, whatever the
\* slot holds (undefined and null included), the initializer is not invoked
\* and useState returns the value the slot held when the pass began.
C22_InitializedOnce ==
  trace.op = "render" =>
    /\ ~InitializerRan
    /\ trace.pass.shown["L"].value = trace.pass.hooksBefore["root"][1].value

\* the same, for every value of the slot but undefined
InitializedOnceUnlessUndefined ==
  (trace.op = "render" /\ trace.pass.hooksBefore["root"][1].value # JSUndefined) =>
    /\ ~InitializerRan
    /\ trace.pass.shown["L"].value = trace.pass.hooksBefore["root"][1].value

\* the slot held undefined, written through the setter, and the pass invoked
\* the initializer again and returned 7
ReinitializedAfterUndefined ==
  /\ trace.op = "render"
  /\ trace.pass.hooksBefore["root"][1].value = JSUndefined
  /\ InitializerRan
  /\ trace.pass.shown["L"].value = JSNum(7)
  /\ hooks["root"][1].value = JSNum(7)

\* the slot held null and the pass returned null
NullKept ==
  /\ trace.op = "render"
  /\ trace.pass.hooksBefore["root"][1].value = JSNull
  /\ trace.pass.shown["L"].value = JSNull

(***************************************************************************)
(* One invocation of the component Trio at the path "c", while another     *)
(* Trio may hold slots at the path "d".  pin.c and pin.d are the slot      *)
(* arrays the two paths hold before: none, or the three slots an earlier   *)
(* invocation left, with the cursor at 3.                                  *)
(***************************************************************************)
TrioValues == {JSNum(0), JSNum(1), JSNaN, JSNull}

TrioSlots ==
  {<<>>} \cup
  {<<StateSlot(a), EffectSlot(NoDeps, cleanup, "e"), StateSlot(b)>> :
     a \in TrioValues, b \in TrioValues, cleanup \in {NoFn, "e"}}

SlotsOfPaths(c, d) ==
  [p \in (IF c # <<>> THEN {"c"} ELSE {}) \cup (IF d # <<>> THEN {"d"} ELSE {}) |->
     IF p = "c" THEN c ELSE d]

InitInvoke ==
  /\ \E c \in TrioSlots, d \in TrioSlots :
       /\ InitWith([Blank EXCEPT !.hooks = SlotsOfPaths(c, d),
                                 !.cursor = [p \in DOMAIN SlotsOfPaths(c, d) |-> 3]])
       /\ pin = [c |-> c, d |-> d]
  /\ log = {}
  /\ trace = [op |-> "none", shown |-> NoShown]
  /\ ncalls = 0

Invoked(b) ==
  /\ Commit(leaveComponent(b.w))
  /\ log' = b.w.log
  /\ trace' = [op |-> "invoked", shown |-> b.w.shown]

\* Component(node.props) between the push and the pop of the component stack
InvokeTrio ==
  /\ trace.op = "none"
  /\ Invoked(Body(enterComponent(World, "c"), "Trio", NoProps))
  /\ UNCHANGED <<ncalls, pin>>

NextInvoke == InvokeTrio

SpecInvoke == InitInvoke /\ [][NextInvoke]_vars

\* C23: an invocation starts with the cursor of its path at 0, and its k-th
\* hook call reads slot k - 1 and moves the cursor by one: the three hook
\* calls of Trio return and leave slots 0, 1 and 2, and the cursor ends at 3;
\* the cursor and the slots of the other path are as before.
C23_SlotPerCall ==
  trace.op = "invoked" =>
    /\ cursor["c"] = 3
    /\ Len(hooks["c"]) = 3
    /\ hooks["c"][1] = (IF pin.c = <<>> THEN StateSlot(JSNum(0)) ELSE pin.c[1])
    /\ hooks["c"][2] = EffectSlot(NoDeps, IF pin.c = <<>> THEN NoFn ELSE pin.c[2].cleanup, "e")
    /\ hooks["c"][3] = (IF pin.c = <<>> THEN StateSlot(JSNum(1)) ELSE pin.c[3])
    /\ trace.shown["T1"].value = hooks["c"][1].value
    /\ trace.shown["T3"].value = hooks["c"][3].value
    /\ queue = <<[path |-> "c", cursor |-> 1]>>
    /\ DOMAIN hooks = {"c"} \cup (IF pin.d # <<>> THEN {"d"} ELSE {})
    /\ pin.d # <<>> => (hooks["d"] = pin.d /\ cursor["d"] = 3)
    /\ DOMAIN cursor = DOMAIN hooks

\* an update of c, whose slots held NaN and null, beside the slots of d
C23_Witness ==
  /\ trace.op = "invoked"
  /\ pin.c = <<StateSlot(JSNaN), EffectSlot(NoDeps, "e", "e"), StateSlot(JSNull)>>
  /\ pin.d = <<StateSlot(JSNum(1)), EffectSlot(NoDeps, NoFn, "e"), StateSlot(JSNum(0))>>
  /\ trace.shown["T1"].value = JSNaN
  /\ trace.shown["T3"].value = JSNull
  /\ cursor["c"] = 3

(***************************************************************************)
(* Siblings of other types in front of an unkeyed component: the page is   *)
(* <Shelf />, whose div holds the unkeyed <Item id="X" /> behind up to     *)
(* MaxBefore siblings of other types, and another list of such siblings    *)
(* once the client has turned the page.                                    *)
(***************************************************************************)
MaxBefore == 1

OtherTypes ==
  {Host("span", NoKey, NoProps, <<>>), createTextElement("a"), PickNode("p")}

Before == UNION {[1..n -> OtherTypes] : n \in 0..MaxBefore}

InitStable ==
  \E old \in Before, new \in Before :
    Mounted(reconcileRoot(resetRoot(Blank,
      ShelfNode(old \o <<ItemNode(NoKey, "X")>>, new \o <<ItemNode(NoKey, "X")>>))))

\* the client calls setPage(0) or setPage(1)
TurnPage == \E l \in 0..1 : CallSetter("root", 0, [fn |-> FALSE, v |-> JSNum(l)])

NextStable == TurnPage \/ Increment \/ RunRender \/ RunFlush

SpecStable == InitStable /\ [][NextStable]_vars

\* the children of the div on page l, and the position of X among them
PageChildren(l) == IF l = 0 THEN rootNode.props.old ELSE rootNode.props.new
PositionOfX(l) ==
  CHOOSE i \in 1..Len(PageChildren(l)) : PageChildren(l)[i] = ItemNode(NoKey, "X")

\* the path createChildPath gives X on page l
PathOfX(l) ==
  createChildPath("root/h:0", NoKey, PositionOfX(l) - 1, "Item", PageChildren(l))

\* C24: whatever siblings of other types a render pass inserts or removes in
\* front of the unkeyed X, X runs at the path it ran at in the pass before,
\* and after the pass (the sweep included) the slot array of that path is the
\* one the path held before the pass; useState returned the value it held.
C24_StableSlots ==
  trace.op = "render" =>
    /\ ~trace.pass.err
    /\ PathOfX(trace.pass.to) = PathOfX(trace.pass.from)
    /\ trace.pass.shown["X"].path = PathOfX(trace.pass.to)
    /\ trace.pass.shownBefore["X"].path = PathOfX(trace.pass.to)
    /\ PathOfX(trace.pass.to) \in DOMAIN hooks
    /\ hooks[PathOfX(trace.pass.to)] = trace.pass.hooksBefore[PathOfX(trace.pass.to)]
    /\ trace.pass.shown["X"].value = hooks[PathOfX(trace.pass.to)][1].value

\* a span was inserted in front of X, whose state was 1 and whose effect had
\* run
C24_Witness ==
  /\ trace.op = "render"
  /\ trace.pass.from = 0
  /\ trace.pass.to = 1
  /\ Len(rootNode.props.old) = 1
  /\ Len(rootNode.props.new) = 2
  /\ rootNode.props.new[1].type = "span"
  /\ hooks["root/h:0/c:Item:0"] = <<StateSlot(JSNum(1)), EffectSlot(Deps(<<>>), "X", "X")>>
  /\ trace.pass.hooksBefore["root/h:0/c:Item:0"] = hooks["root/h:0/c:Item:0"]

\* a component of another type was removed in front of X
C24_WitnessRemoved ==
  /\ trace.op = "render"
  /\ trace.pass.from = 0
  /\ trace.pass.to = 1
  /\ Len(rootNode.props.old) = 2
  /\ Len(rootNode.props.new) = 1
  /\ rootNode.props.old[1].type = "Pick"
  /\ hooks["root/h:0/c:Item:0"][1].value = JSNum(1)
  /\ trace.pass.shown["X"].value = JSNum(1)

(***************************************************************************)
(* What a component returns: the page is <Shelf />, whose div holds        *)
(* <Give gives={v} />, and <Give gives={u} /> once the client has turned   *)
(* the page, so that Give is mounted returning v and updated in place      *)
(* returning u.                                                            *)
(***************************************************************************)
GiveValues ==
  {RNull, RUndefined, RBool("true"), RBool("false"), RStr(""), RStr("a"),
   RNum(JSNum(0)), RNum(JSNum(7)),
   RNode(1, Host("p", NoKey, NoProps, <<>>)),
   RNode(2, VNode(Fragment, NoKey, NoProps, <<createTextElement("x"), createTextElement("y")>>)),
   RArr(<<>>),
   RArr(<<RStr("a"), RNode(1, Host("p", NoKey, NoProps, <<>>))>>)}

InitReturn ==
  \E v \in GiveValues, u \in GiveValues :
    Mounted(reconcileRoot(resetRoot(Blank, ShelfNode(<<GiveNode(v)>>, <<GiveNode(u)>>))))

\* the client turns the page of a Shelf whose last pass did not throw
TurnGive ==
  /\ ~trace.pass.err
  /\ TurnPage

NextReturn == TurnGive \/ RunRender

SpecReturn == InitReturn /\ [][NextReturn]_vars

\* the value Give returned in the last pass, and the instance of Give
Given ==
  IF trace.pass.to = 0 THEN rootNode.props.old[1].props.gives
  ELSE rootNode.props.new[1].props.gives
GiveInstance == rootInst[1].children[1].children[1]

\* C25: on mount and on update, whatever Give returns, the pass does not
\* throw and the instance of Give has at most one child: none when the value
\* is null, undefined or a boolean, one TEXT child showing the value when it
\* is a string or a number.
C25_NormalizedReturn ==
  trace.op \in {"setup", "render"} =>
    /\ ~trace.pass.err
    /\ Len(GiveInstance.children) <= 1
    /\ isEmptyValue(Given) => GiveInstance.children = <<>>
    /\ Given.kind \in {"string", "number"} =>
         /\ Len(GiveInstance.children) = 1
         /\ GiveInstance.children[1].kind = "text"
         /\ dom[GiveInstance.children[1].dom].text = TextOf(Given)

\* what the two invocation sites do: a falsy value leaves no child, a node
\* becomes the one child, and any other value makes the pass throw
ReturnUsedAsNode ==
  trace.op \in {"setup", "render"} =>
    /\ Falsy(Given) => (~trace.pass.err /\ GiveInstance.children = <<>>)
    /\ Given.kind = "vnode" =>
         /\ ~trace.pass.err
         /\ Len(GiveInstance.children) = 1
         /\ GiveInstance.children[1].node = Given.node[1]
    /\ (~Falsy(Given) /\ Given.kind # "vnode") => trace.pass.err

\* Give, mounted returning a p, returned the string "a" in an update, and the
\* pass threw
StringReturnThrows ==
  /\ trace.op = "render"
  /\ trace.pass.from = 0
  /\ trace.pass.to = 1
  /\ rootNode.props.old[1].props.gives.kind = "vnode"
  /\ Given = RStr("a")
  /\ trace.pass.err

\* Give returned 0 on mount and has no child
ZeroReturnsNothing ==
  /\ trace.op = "setup"
  /\ Given = RNum(JSNum(0))
  /\ ~trace.pass.err
  /\ GiveInstance.children = <<>>

(***************************************************************************)
(* The stored path of a component instance and the path it is invoked      *)
(* under, in the passes of Spec.                                           *)
(***************************************************************************)
RECURSIVE InstancesOf(_)
InstancesOf(instance) ==
  {instance} \cup UNION {InstancesOf(instance.children[i]) : i \in 1..Len(instance.children)}

\* the instances of Item in the tree
ItemInstances ==
  {inst \in InstancesOf(rootInst[1]) : inst.kind = "component" /\ inst.node.type = "Item"}

\* the path the instance ran at in the last pass, and what useState returned
RanAt(inst) == trace.pass.shown[inst.node.props.id.s]

\* C26: after a pass every component instance was invoked under its stored
\* path, the one its slots were created under at mount, and useState returned
\* the value the slot array of that path held before the pass.
C26_InvokedAtStoredPath ==
  trace.op = "render" =>
    \A inst \in ItemInstances :
      /\ RanAt(inst).path = inst.path
      /\ inst.path \in DOMAIN trace.pass.hooksBefore =>
           RanAt(inst).value = trace.pass.hooksBefore[inst.path][1].value

\* the same for the passes that render a keyed list
InvokedAtStoredPathWithKeys ==
  (trace.op = "render" /\ trace.pass.to \in 0..2) =>
    \A inst \in ItemInstances :
      /\ RanAt(inst).path = inst.path
      /\ inst.path \in DOMAIN trace.pass.hooksBefore =>
           RanAt(inst).value = trace.pass.hooksBefore[inst.path][1].value

\* X, mounted behind a span at the path of the first Item, was updated in
\* place behind Y: it ran at the path of the second Item, on a slot array
\* that the pass created
UpdatedAtOtherPath ==
  /\ trace.op = "render"
  /\ trace.pass.from = 3
  /\ trace.pass.to = 4
  /\ \E inst \in ItemInstances :
       /\ inst.node.props.id.s = "X"
       /\ inst.path = "root/h:0/c:Item:0"
       /\ RanAt(inst).path = "root/h:0/c:Item:1"
       /\ inst.path \in DOMAIN trace.pass.hooksBefore
       /\ RanAt(inst).path \notin DOMAIN trace.pass.hooksBefore
       /\ RanAt(inst).path \in DOMAIN hooks

(***************************************************************************)
(* A state write inside a memoized component: the page is <Shelf />, whose *)
(* div holds memo(Count) with the label a in front of <Item id="X" />,     *)
(* and, once the client has turned the page, memo(Count) with the label a  *)
(* or b in front of the same Item.                                         *)
(***************************************************************************)
MemoLabels == {"a", "b"}

InitMemo ==
  \E label \in MemoLabels :
    Mounted(reconcileRoot(resetRoot(Blank,
      ShelfNode(<<MemoNode("a"), ItemNode(NoKey, "X")>>,
                <<MemoNode(label), ItemNode(NoKey, "X")>>))))

NextMemo == TurnPage \/ Increment \/ RunRender \/ RunFlush

SpecMemo == InitMemo /\ [][NextMemo]_vars

MemoPath == "root/h:0/c:MemoizedComponent:0"

\* the batch of the last pass holds an updater call v => v + 1 through the
\* setter of a slot of the path, made while the path was mounted
WrittenTo(path, cur) ==
  \E i \in 1..Len(trace.pass.batch) :
    /\ trace.pass.batch[i].op = "setState"
    /\ trace.pass.batch[i].path = path
    /\ trace.pass.batch[i].cursor = cur
    /\ trace.pass.batch[i].live

\* the body that shows under the name id ran in the last pass, useState
\* returned the value of the slot, and the text under the path shows it
RenderedValue(id, path, cur) ==
  /\ id \in DOMAIN trace.pass.shown
  /\ trace.pass.shown[id].value = hooks[path][cur + 1].value
  /\ \E inst \in InstancesOf(rootInst[1]) :
       /\ inst.kind = "text"
       /\ inst.path = path \o "/h:0/t:0"
       /\ dom[inst.dom].text = ToText(hooks[path][cur + 1].value)

\* C27: a render pass that follows an accepted state write of a mounted
\* component invokes the body of that component, useState returns the written
\* value and the output shows it, for the plain component X and for the
\* memoized one alike.
C27_WriteIsRendered ==
  trace.op = "render" =>
    /\ WrittenTo("root/h:0/c:Item:0", 0) => RenderedValue("X", "root/h:0/c:Item:0", 0)
    /\ WrittenTo(MemoPath, 1) => RenderedValue("M", MemoPath, 1)

\* the same for the plain component, and for the memoized one when the pass
\* gave it other props
WriteIsRenderedUnlessSkipped ==
  trace.op = "render" =>
    /\ WrittenTo("root/h:0/c:Item:0", 0) => RenderedValue("X", "root/h:0/c:Item:0", 0)
    /\ (/\ WrittenTo(MemoPath, 1)
        /\ PageChildren(trace.pass.to)[1] # PageChildren(trace.pass.from)[1])
         => RenderedValue("M", MemoPath, 1)

\* the state of the memoized component was written to 1, the pass gave it
\* equal props, its body did not run and the text still shows 0
MemoSkipsWrite ==
  /\ trace.op = "render"
  /\ WrittenTo(MemoPath, 1)
  /\ hooks[MemoPath][2].value = JSNum(1)
  /\ "M" \notin DOMAIN trace.pass.shown
  /\ "X" \in DOMAIN trace.pass.shown
  /\ \E inst \in InstancesOf(rootInst[1]) :
       /\ inst.kind = "text"
       /\ inst.path = MemoPath \o "/h:0/t:0"
       /\ dom[inst.dom].text = "0"

(***************************************************************************)
(* A setter that outlives its instance: the page is <Shelf />, whose div   *)
(* holds the keyed <Item key="A" id="A" /> on page 0 and other children    *)
(* on page 1.  The client keeps the setter of the A that was mounted       *)
(* first.  pin is 0 while that A is mounted; once a pass has swept its     *)
(* path the kept setter is the setter of an unmounted instance, and pin    *)
(* is 1 plus the number of calls the client has made through it.           *)
(***************************************************************************)
MaxStale == 1

StalePages ==
  {<<>>, <<Host("span", NoKey, NoProps, <<>>)>>, <<ItemNode("B", "B")>>,
   <<Host("span", NoKey, NoProps, <<>>), ItemNode("A", "A")>>}

StalePath == "root/h:0/c:Item:key(A)"

InitStale ==
  \E page \in StalePages :
    Mounted(reconcileRoot(resetRoot(Blank, ShelfNode(<<ItemNode("A", "A")>>, page))))

\* the microtask of enqueueRender; a pass that sweeps the path of A leaves the
\* client with the setter of an unmounted instance
RenderStale ==
  /\ microtasks # <<>>
  /\ Head(microtasks) = "render"
  /\ Swept(reconcileRoot([World EXCEPT !.microtasks = Tail(@)]))
  /\ pin' = IF pin = 0 /\ StalePath \notin DOMAIN hooks' THEN 1 ELSE pin
  /\ UNCHANGED ncalls

StaleValues == {[fn |-> TRUE, v |-> JSUndefined], [fn |-> FALSE, v |-> JSNum(0)],
                [fn |-> FALSE, v |-> JSNum(5)]}

\* the client calls the kept setter of the unmounted A
CallStale ==
  /\ pin >= 1
  /\ pin - 1 < MaxStale
  /\ \E next \in StaleValues :
       SetterCalled(setState(World, StalePath, 0, next), StalePath, 0, next)
  /\ pin' = pin + 1
  /\ UNCHANGED <<log, ncalls>>

NextStale == TurnPage \/ RenderStale \/ RunFlush \/ CallStale

SpecStale == InitStale /\ [][NextStale]_vars

\* C28: a call through the setter of an unmounted and swept instance changes
\* no slot array and requests no render pass, whether or not another instance
\* has been mounted at the path since.
C28_StaleSetterInert ==
  (trace.op = "setState" /\ trace.call.path = StalePath) =>
    /\ hooks = trace.call.hooksBefore
    /\ trace.call.requests = 0
    /\ microtasks = trace.call.tasksBefore

\* the same while no instance is mounted at the path
StaleSetterInertWhileUnmounted ==
  (trace.op = "setState" /\ trace.call.path = StalePath /\ ~trace.call.live) =>
    /\ hooks = trace.call.hooksBefore
    /\ trace.call.requests = 0
    /\ microtasks = trace.call.tasksBefore

\* the first A was swept, another A was mounted at the path with the state
\* 0, and the kept setter wrote 5 into its slot and requested a pass
StaleSetterWritesNewInstance ==
  /\ trace.op = "setState"
  /\ trace.call.path = StalePath
  /\ trace.call.live
  /\ pin = 2
  /\ trace.call.hooksBefore[StalePath][1].value = JSNum(0)
  /\ hooks[StalePath][1].value = JSNum(5)
  /\ trace.call.requests = 1
  /\ microtasks # trace.call.tasksBefore

(***************************************************************************)
(* The cleanups of the tree that a second setup discards, in Spec.         *)
(***************************************************************************)
\* the effect slots that held a callable cleanup named id when the last
\* setup began
HeldCleanups(id) ==
  {<<p, i>> \in (DOMAIN trace.pass.hooksBefore) \X (1..2) :
     /\ i <= Len(trace.pass.hooksBefore[p])
     /\ isEffectHook(trace.pass.hooksBefore[p][i])
     /\ trace.pass.hooksBefore[p][i].cleanup = id}

\* the calls of the cleanup named id that the last step made
CleanupCalls(id) ==
  {i \in 1..Len(trace.callLog) : trace.callLog[i] = <<"cleanup", id>>}

\* C29: a setup on a mounted page invokes every callable cleanup that the
\* slots of the mounted tree hold, once each.
C29_SetupRunsCleanups ==
  (trace.op = "setup" /\ trace.setups >= 1) =>
    \A id \in ItemNames :
      Cardinality(CleanupCalls(id)) = Cardinality(HeldCleanups(id))

\* the page held the cleanups of the Items A, B and C when setup was called
\* again, and setup invoked none of them
SetupDropsCleanups ==
  /\ trace.op = "setup"
  /\ trace.setups >= 1
  /\ \A id \in {"A", "B", "C"} : Cardinality(HeldCleanups(id)) = 1
  /\ \A id \in ItemNames : CleanupCalls(id) = {}
  /\ cleanCount = trace.pass.pre.cleanCount

(***************************************************************************)
(* shallowEquals in both orders, on primitives, arrays and plain objects   *)
(* whose values may be undefined: pin.a and pin.b are the two arguments.   *)
(***************************************************************************)
HeldValues == {JSUndefined, JSNum(1), JSNaN}

HeldArrays(r) ==
  {JSArr(r, elems) : elems \in UNION {[1..n -> HeldValues] : n \in 0..MaxLength}}

HeldObjects(r) ==
  {JSObj(r, props) : props \in UNION {[ks -> HeldValues] : ks \in SUBSET ObjKeys}}

InitSymmetry ==
  /\ InitWith(Blank)
  /\ log = {}
  /\ trace = [op |-> "none", ab |-> FALSE, ba |-> FALSE]
  /\ ncalls = 0
  /\ \E a \in Primitives \cup HeldArrays(1) \cup HeldObjects(1) :
       \E b \in {a} \cup Primitives \cup HeldArrays(2) \cup HeldObjects(2) :
         pin = [a |-> a, b |-> b]

\* shallowEquals(a, b) and shallowEquals(b, a)
CompareBoth ==
  /\ trace.op = "none"
  /\ trace' = [op |-> "compared",
               ab |-> shallowEquals(pin.a, pin.b),
               ba |-> shallowEquals(pin.b, pin.a)]
  /\ UNCHANGED <<hooks, cursor, visited, queue, rootNode, rootInst, dom, nextId,
                 microtasks, setters, effCount, cleanCount, log, ncalls, pin>>

NextSymmetry == CompareBoth

SpecSymmetry == InitSymmetry /\ [][NextSymmetry]_vars

IsPlainObject(x) == IsObject(x) /\ ~x.arr

HoldsUndefined(x) ==
  IsPlainObject(x) /\ \E key \in KeysOf(x) : ValueAt(x, key) = JSUndefined

\* C30: shallowEquals(a, b) = shallowEquals(b, a) for all a and b, and two
\* plain objects are found equal only if they have the same keys.
C30_Symmetric ==
  trace.op = "compared" =>
    /\ trace.ab = trace.ba
    /\ (IsPlainObject(pin.a) /\ IsPlainObject(pin.b) /\ trace.ab) =>
         KeysOf(pin.a) = KeysOf(pin.b)

\* the same when neither argument is a plain object holding undefined
SymmetricWithoutUndefined ==
  (trace.op = "compared" /\ ~HoldsUndefined(pin.a) /\ ~HoldsUndefined(pin.b)) =>
    /\ trace.ab = trace.ba
    /\ (IsPlainObject(pin.a) /\ IsPlainObject(pin.b) /\ trace.ab) =>
         KeysOf(pin.a) = KeysOf(pin.b)

\* {a: undefined} equals {b: 1}, and {b: 1} does not equal {a: undefined}
UndefinedHidesKey ==
  /\ trace.op = "compared"
  /\ pin.a = JSObj(1, [k \in {"a"} |-> JSUndefined])
  /\ pin.b = JSObj(2, [k \in {"b"} |-> JSNum(1)])
  /\ trace.ab
  /\ ~trace.ba

(***************************************************************************)
(* deepEquals on nested values (utils/equals.ts): a and b are primitives,  *)
(* arrays or plain objects, and an array or object may hold another one.   *)
(***************************************************************************)
DeepLeaves == {JSUndefined, JSNum(0), JSNegZero, JSNaN}

\* [], {}, [0], {"0": 0}, {a: undefined}, {b: undefined}, {a: NaN}
DeepInner(r) ==
  {JSArr(r, <<>>), JSObj(r, [k \in {} |-> JSUndefined]),
   JSArr(r, <<JSNum(0)>>), JSObj(r, [k \in {"0"} |-> JSNum(0)]),
   JSObj(r, [k \in {"a"} |-> JSUndefined]), JSObj(r, [k \in {"b"} |-> JSUndefined]),
   JSObj(r, [k \in {"a"} |-> JSNaN])}

\* a value, or [value], or {a: value}; r is the identity of the inner array
\* or object and r + 1 the identity of the outer one
DeepValues(r) ==
  DeepLeaves \cup DeepInner(r)
    \cup {JSArr(r + 1, <<x>>) : x \in DeepLeaves \cup DeepInner(r)}
    \cup {JSObj(r + 1, [k \in {"a"} |-> x]) : x \in DeepLeaves \cup DeepInner(r)}

\* b is a itself, or any value of another identity
InitDeep ==
  /\ InitWith(Blank)
  /\ log = {}
  /\ trace = [op |-> "none", deep |-> FALSE]
  /\ ncalls = 0
  /\ \E a \in DeepValues(1) : \E b \in {a} \cup DeepValues(3) : pin = [a |-> a, b |-> b]

\* deepEquals(a, b)
CompareDeep ==
  /\ trace.op = "none"
  /\ trace' = [op |-> "compared", deep |-> deepEquals(pin.a, pin.b)]
  /\ UNCHANGED <<hooks, cursor, visited, queue, rootNode, rootInst, dom, nextId,
                 microtasks, setters, effCount, cleanCount, log, ncalls, pin>>

NextDeep == CompareDeep

SpecDeep == InitDeep /\ [][NextDeep]_vars

\* structural equality: Object.is on primitives, arrays of the same length
\* with equal elements, plain objects of the same keys with equal values
RECURSIVE StructurallyEqual(_, _)
StructurallyEqual(a, b) ==
  IF ~IsObject(a) \/ ~IsObject(b) THEN ObjectIs(a, b)
  ELSE IF a.arr # b.arr THEN FALSE
  ELSE IF a.arr
    THEN /\ Len(a.elems) = Len(b.elems)
         /\ \A i \in 1..Len(a.elems) : StructurallyEqual(a.elems[i], b.elems[i])
  ELSE /\ KeysOf(a) = KeysOf(b)
       /\ \A key \in KeysOf(a) : StructurallyEqual(ValueAt(a, key), ValueAt(b, key))

\* C31: deepEquals(a, b) is true if and only if a and b are structurally
\* equal; it is false when exactly one of them is an array, and when the key
\* sets of two objects differ.
C31_DeepStructural ==
  trace.op = "compared" => trace.deep = StructurallyEqual(pin.a, pin.b)

\* the half that the code keeps: structurally equal values are found equal
StructurallyEqualIsDeepEqual ==
  (trace.op = "compared" /\ StructurallyEqual(pin.a, pin.b)) => trace.deep

\* somewhere in a and b, at the same position, an array faces a plain object
\* or two plain objects of different keys face each other
RECURSIVE Mismatched(_, _)
Mismatched(a, b) ==
  /\ IsObject(a)
  /\ IsObject(b)
  /\ \/ a.arr # b.arr
     \/ ~a.arr /\ KeysOf(a) # KeysOf(b)
     \/ \E key \in KeysOf(a) \cap KeysOf(b) : Mismatched(ValueAt(a, key), ValueAt(b, key))

\* the claim on the pairs without such a position
DeepStructuralWhenMatched ==
  (trace.op = "compared" /\ ~Mismatched(pin.a, pin.b)) =>
    trace.deep = StructurallyEqual(pin.a, pin.b)

\* deepEquals([], {}) is true
EmptyArrayEqualsEmptyObject ==
  /\ trace.op = "compared"
  /\ pin.a = JSArr(1, <<>>)
  /\ pin.b = JSObj(3, [k \in {} |-> JSUndefined])
  /\ trace.deep

\* deepEquals([0], {"0": 0}) is true
ArrayEqualsIndexedObject ==
  /\ trace.op = "compared"
  /\ pin.a = JSArr(1, <<JSNum(0)>>)
  /\ pin.b = JSObj(3, [k \in {"0"} |-> JSNum(0)])
  /\ trace.deep

\* deepEquals({a: undefined}, {b: undefined}) is true
UndefinedHidesKeyDeep ==
  /\ trace.op = "compared"
  /\ pin.a = JSObj(1, [k \in {"a"} |-> JSUndefined])
  /\ pin.b = JSObj(3, [k \in {"b"} |-> JSUndefined])
  /\ trace.deep

\* the same one level down: deepEquals({a: []}, {a: {}}) is true
NestedArrayEqualsNestedObject ==
  /\ trace.op = "compared"
  /\ pin.a = JSObj(2, [k \in {"a"} |-> JSArr(1, <<>>)])
  /\ pin.b = JSObj(4, [k \in {"a"} |-> JSObj(3, [j \in {} |-> JSUndefined])])
  /\ trace.deep

\* two distinct nested values of the same shape are found equal
DeepEqualNested ==
  /\ trace.op = "compared"
  /\ pin.a = JSArr(2, <<JSObj(1, [k \in {"a"} |-> JSNaN])>>)
  /\ pin.b = JSArr(4, <<JSObj(3, [k \in {"a"} |-> JSNaN])>>)
  /\ trace.deep

====
